---- MODULE Spec2Model ----
(***************************************************************************)
(* protobuf-ts-toolkit: interceptors for protobuf-ts RPC calls.            *)
(*                                                                         *)
(* Part 1: the metadata interceptor (packages/metadata,                    *)
(* metadata-interceptor.ts).  One interceptor instance (config) serves     *)
(* the calls 1..MaxCalls.  A call is the closure state of one hook         *)
(* invocation together with the inner call that next returned.             *)
(*                                                                         *)
(* JavaScript runs every callback to completion, so each action below is   *)
(* one synchronous stretch of code: the hook itself, a promise reaction    *)
(* (the .then callback), a method of the proxy request stream, or an       *)
(* event of the inner call together with the forwarder registered on it.   *)
(*                                                                         *)
(* Part 2: the error-mapping interceptor (packages/grpc-error,             *)
(* createErrorInterceptor and mapRpcError).  One call is followed from     *)
(* its hook to the settlement of its promises and response stream.         *)
(*                                                                         *)
(* Part 3: the dual-transport router (GrpcWebHybridTransport): the         *)
(* interceptor application guard of clientStreaming / duplex and the       *)
(* connection callbacks of performClientStreaming / performDuplex.         *)
(*                                                                         *)
(* Part 4: the error codec (packages/grpc-error, codec/encode.ts,          *)
(* codec/status.ts, codec/decode.ts) and the error classes (errors.ts):    *)
(* pure functions, applied to a value drawn by Init.                       *)
(*                                                                         *)
(* The four parts have their own variables; a specification of one part    *)
(* leaves the variables of the other parts at their initial values.        *)
(* SpecStreams and SpecOptions run parts side by side; SpecTranslate       *)
(* applies the router's metadata translation as the codec's functions are  *)
(* applied.                                                                *)
(***************************************************************************)
EXTENDS Integers, Sequences, FiniteSets, TLC

\* ------------------------------------------------------------------ bounds
\* Calls made through the interceptor instance.
MaxCalls == 2
\* What the environment does to the calls once their hooks have returned:
\* operations on proxy request streams, settlements of inner promises and
\* events of inner response streams, counted together over all calls.
MaxEvents == 3
\* What the environment does to the call through the error interceptor:
\* settlements of inner promises and events of the inner response stream.
MaxErrEvents == 4
\* Interceptors the router is constructed with.
MaxInterceptors == 2
\* Inbound messages a connection of the router delivers.
MaxMessages == 2
\* Entries into the router's clientStreaming / duplex method for one call.
MaxEntries == 3

Calls == 1 .. MaxCalls
\* The call that is followed through its whole life, or made with every
\* argument; several calls in flight are the matter of SpecMany.
LifeCalls == {1}

\* ------------------------------------------------------------------ values
CallType == {"unary", "serverStreaming", "clientStreaming", "duplex"}
InputShapes == {"unary", "serverStreaming"}
StreamShapes == {"clientStreaming", "duplex"}

Methods == {"GetItem", "Watch"}
Inputs == {"in1", "in2"}
Msgs == {"m1", "m2"}
Keys == {"k1", "k2"}
Vals == {"caller", "provider"}

\* RpcMetadata: a mapping from some of the keys to values.
RpcMetadata == UNION {[D -> Vals] : D \in SUBSET Keys}
EmptyMeta == [k \in {} |-> "caller"]

\* options.meta is optional: [given |-> FALSE] stands for undefined.
NoMeta == [given |-> FALSE, map |-> EmptyMeta]
SomeMeta(m) == [given |-> TRUE, map |-> m]
\* Metadata the caller puts on its options, and metadata the provider yields.
CallerMetas == {NoMeta} \cup {SomeMeta(m) : m \in {[k \in {"k1"} |-> "caller"], [k \in Keys |-> "caller"]}}
ProviderMetas == {m \in RpcMetadata : \A k \in DOMAIN m : m[k] = "provider"}
\* The rest of RpcOptions (abort, interceptors, ...), kept as one token.
OptionRests == {"opts1", "opts2"}

Channels == {"headers", "response", "status", "trailers"}
\* unary and clientStreaming calls have a response promise, the other two a
\* response stream.
ChannelsOf(type) == IF type \in {"unary", "clientStreaming"} THEN Channels ELSE Channels \ {"response"}
HasStream(type) == type \in {"serverStreaming", "duplex"}

Pending == [state |-> "pending", value |-> "none"]
Fulfilled(v) == [state |-> "fulfilled", value |-> v]
Rejected(e) == [state |-> "rejected", value |-> e]

ProviderErrors == {"tokenError", "networkError"}
InnerError == "rpcError"

VARIABLES
  config,          \* the closure of createMetadataInterceptor: metadata, callTypes
  providerLog,     \* the contexts the provider function has been invoked with
  pc,              \* per call: where the call is
  args,            \* per call: the hook's arguments
  provider,        \* per call: the promise resolveMetadata returned
  nextLog,         \* per call: the invocations of next
  returned,        \* per call: what the hook returned
  pendingCall,     \* per call: whether pendingCall is set
  pendingMessages, \* per call: the buffered messages
  sendCompleted,   \* per call: the buffered complete signal
  requests,        \* per call: what the inner call's request stream received
  proxyOps,        \* per call: what the caller did on the proxy request stream
  resolvedAt,      \* per call: Len(proxyOps) when the inner call was created
  inner,           \* per call: the inner call's settlement promises
  outer,           \* per call: the returned call's settlement promises
  responses,       \* per call: the events of the inner call's response stream
  outputStream     \* per call: the events of the returned call's response stream

\* The error-mapping interceptor (part 2).
VARIABLES
  runtime,         \* which base64 decoder the JavaScript runtime offers
  onError,         \* whether config.onError is given
  thrown,          \* the values the inner call may fail with
  abort,           \* options.abort of the call
  epc,             \* where the call is
  etype,           \* the call's shape
  finished,        \* what `await next(...)` of the unary hook waits for
  einner,          \* the inner call's settlement promises
  eouter,          \* the returned call's settlement promises
  eresponses,      \* the events of the inner call's response stream
  eoutputStream,   \* the events of the returned call's response stream
  onErrorLog,      \* the errors onError has been invoked with
  mapLog,          \* the invocations of mapRpcError
  enextLog         \* the invocations of next: the options given, the options passed

errVars == <<runtime, onError, thrown, abort, epc, etype, finished, einner, eouter,
             eresponses, eoutputStream, onErrorLog, mapLog, enextLog>>

\* The dual-transport router (part 3).
VARIABLES
  interceptors,    \* options.interceptors the transport was constructed with
  rpc,             \* where the call is
  rtype,           \* the call's shape
  chain,           \* the hooks stackIntercept has still to run
  passed,          \* options.interceptors as the call travels down the chain
  entries,         \* how often the transport's method has been entered
  hookRuns,        \* per interceptor: how often its hook has run
  connections,     \* how many connections have been started
  events,          \* the callbacks the connection has made
  deferreds,       \* headersDeferred, responseDeferred, statusDeferred, trailersDeferred
  responseStream,  \* the events of the duplex call's response stream
  fetchCalls,      \* the calls handed to this.fetchTransport
  attempts         \* per deferred: how often resolve or reject has been called on it

routerVars == <<interceptors, rpc, rtype, chain, passed, entries, hookRuns, connections,
                events, deferreds, responseStream, fetchCalls, attempts>>

metaVars == <<config, providerLog, pc, args, provider, nextLog, returned, pendingCall,
              pendingMessages, sendCompleted, requests, proxyOps, resolvedAt, inner,
              outer, responses, outputStream>>

\* The error codec (part 4).
VARIABLES
  codecOp,         \* what is done with the value: which functions are applied to it
  codecVals        \* the value followed by the results of the functions applied so far

codecVars == <<codecOp, codecVals>>

vars == <<metaVars, errVars, routerVars, codecVars>>

\* ----------------------------------------------------------------- helpers
\* The configurations createMetadataInterceptor is given.  A provider is a
\* static mapping or a function of the context (sync or async).
MetadataProviders == {[kind |-> "function", value |-> EmptyMeta], [kind |-> "static", value |-> [k \in {"k1"} |-> "provider"]]}
\* config.callTypes is optional: [given |-> FALSE] stands for undefined.
NoCallTypes == [given |-> FALSE, list |-> {}]
CallTypeLists == {NoCallTypes} \cup {[given |-> TRUE, list |-> l] : l \in {{}, {"serverStreaming", "duplex"}} \cup {{t} : t \in CallType}}
Configs == [metadata : MetadataProviders, callTypes : CallTypeLists]
\* The configurations of the runs that follow calls through their whole life.
ManyConfigs == [metadata : MetadataProviders, callTypes : {NoCallTypes, [given |-> TRUE, list |-> {"serverStreaming", "duplex"}]}]
LifeConfigs == {[metadata |-> [kind |-> "function", value |-> EmptyMeta], callTypes |-> NoCallTypes], [metadata |-> [kind |-> "static", value |-> [k \in {"k1"} |-> "provider"]], callTypes |-> [given |-> TRUE, list |-> {"serverStreaming", "duplex"}]]}

RpcOptions == [meta : CallerMetas, rest : OptionRests]

\* The arguments of a hook: (method, input, options); a streaming-input hook
\* takes no input.
CallArgs == [method : Methods, input : Inputs, options : RpcOptions]
NoInput(a) == [a EXCEPT !.input = "none"]
\* What a provider function may do when invoked: throw or return a rejected
\* promise, return a mapping, return a pending promise.
ProviderResults == {Pending} \cup {Fulfilled(m) : m \in ProviderMetas} \cup {Rejected(e) : e \in ProviderErrors}

\* The arguments and provider results of the runs that follow calls through
\* their whole life (sends, settlements, stream events).
LifeArgs == {[method |-> "Watch", input |-> "in1", options |-> [meta |-> SomeMeta([k \in {"k1"} |-> "caller"]), rest |-> "opts1"]]}
\* The arguments of the runs with several calls in flight.
ManyArgs == {[method |-> m, input |-> "in1", options |-> [meta |-> NoMeta, rest |-> "opts1"]] : m \in Methods}
LifeResults == {Pending, Fulfilled([k \in {"k2"} |-> "provider"]), Rejected("tokenError")}

\* A filter that lets every call shape through to the provider.
AlwaysIntercept(type) == TRUE

\* shouldIntercept: callTypes === undefined || callTypes.includes(type)
shouldIntercept(type) == (~config.callTypes.given) \/ type \in config.callTypes.list

\* const context = { callType, method }
MetadataContext(type, method) == [callType |-> type, method |-> method]

\* A provider whose result is reused for a context it has already seen.
InvokeProviderCached(log, context) == IF config.metadata.kind = "function" /\ \A i \in 1 .. Len(log) : log[i] # context THEN Append(log, context) ELSE log

\* resolveMetadata, the call of the provider: a function provider is invoked
\* with the context, a static one is not.
InvokeProvider(log, context) == IF config.metadata.kind = "function" THEN Append(log, context) ELSE log

\* resolveMetadata, the promise it returns.  It is an async function: a
\* provider function that throws rejects it, one that returns a mapping
\* fulfils it, one that returns a pending promise leaves it pending; a static
\* provider fulfils it with the mapping.
resolveMetadata(R) == IF config.metadata.kind = "function" THEN R ELSE {Fulfilled(config.metadata.value)}

\* { ...options.meta }: spreading undefined gives no entries.
Spread(meta) == IF meta.given THEN meta.map ELSE EmptyMeta

\* A merge in which the caller's entries win: { ...resolved, ...options.meta }
MergeCallerWins(meta, resolved) == [k \in DOMAIN Spread(meta) \cup DOMAIN resolved |-> IF k \in DOMAIN Spread(meta) THEN Spread(meta)[k] ELSE resolved[k]]

\* const meta = { ...options.meta, ...resolved }
MergeMeta(meta, resolved) == [k \in DOMAIN Spread(meta) \cup DOMAIN resolved |-> IF k \in DOMAIN resolved THEN resolved[k] ELSE Spread(meta)[k]]

\* Options made anew from the merged metadata: { meta } in place of
\* { ...options, meta }.
OnlyMeta(options, meta) == [meta |-> SomeMeta(meta), rest |-> "none"]

\* { ...options, meta }
WithMeta(options, meta) == [options EXCEPT !.meta = SomeMeta(meta)]

\* One invocation of next.
NextCall(method, input, options, during) == [method |-> method, input |-> input, options |-> options, during |-> during]

\* Operations on a request stream.
SendOp(m) == [op |-> "send", msg |-> m]
CompleteOp == [op |-> "complete", msg |-> "none"]

\* Events of a response stream, as onNext hands them over: (message, error, done).
MessageEvent(m) == [message |-> m, error |-> "none", done |-> FALSE]
ErrorEvent(e) == [message |-> "none", error |-> e, done |-> FALSE]
CompleteEvent == [message |-> "none", error |-> "none", done |-> TRUE]
StreamClosed(s) == Len(s) > 0 /\ (s[Len(s)].error # "none" \/ s[Len(s)].done)

\* An onNext callback that puts a message in front of the earlier ones.
OnNextNewestFirst(stream, ev) ==
  LET s1 == IF ev.message # "none" THEN <<MessageEvent(ev.message)>> \o stream ELSE stream
      s2 == IF ev.error # "none" THEN Append(s1, ErrorEvent(ev.error)) ELSE s1
  IN IF ev.done THEN Append(s2, CompleteEvent) ELSE s2

\* The onNext callback of the response-stream proxy:
\*   if (message) notifyMessage; if (error) notifyError; if (done) notifyComplete
OnNext(stream, ev) ==
  LET s1 == IF ev.message # "none" THEN Append(stream, MessageEvent(ev.message)) ELSE stream
      s2 == IF ev.error # "none" THEN Append(s1, ErrorEvent(ev.error)) ELSE s1
  IN IF ev.done THEN Append(s2, CompleteEvent) ELSE s2

\* A flush that sends the newest buffered message first.
RECURSIVE FlushNewestFirst(_)
FlushNewestFirst(q) == IF q = <<>> THEN <<>> ELSE FlushNewestFirst(Tail(q)) \o <<SendOp(Head(q))>>

\* The flush: for (const msg of pendingMessages) call.requests.send(msg)
RECURSIVE Flush(_)
Flush(q) == IF q = <<>> THEN <<>> ELSE <<SendOp(Head(q))>> \o Flush(Tail(q))

\* if (sendCompleted) call.requests.complete()
FlushComplete(completed) == IF completed THEN <<CompleteOp>> ELSE <<>>

\* A flush that leaves the buffer as it is.
NotTruncated(q) == q

\* pendingMessages.length = 0
Truncated(q) == <<>>

\* The buffered complete signal passed on before the buffered messages.
CompleteBeforeFlush(q, completed) == FlushComplete(completed) \o Flush(q)

\* What reaches the inner request stream when the inner call is created.
FlushedRequests(q, completed) == Flush(q) \o FlushComplete(completed)

AllPending == [ch \in Channels |-> Pending]

\* -------------------------------------------------------------------- state
\* createMetadataInterceptor(config): no call has been made yet.
MetadataInit(C) ==
  /\ config \in C
  /\ providerLog = <<>>
  /\ pc = [c \in Calls |-> "idle"]
  /\ args = [c \in Calls |-> [callType |-> "none", method |-> "none", input |-> "none", options |-> [meta |-> NoMeta, rest |-> "none"]]]
  /\ provider = [c \in Calls |-> Pending]
  /\ nextLog = [c \in Calls |-> <<>>]
  /\ returned = [c \in Calls |-> "none"]
  /\ pendingCall = [c \in Calls |-> FALSE]
  /\ pendingMessages = [c \in Calls |-> <<>>]
  /\ sendCompleted = [c \in Calls |-> FALSE]
  /\ requests = [c \in Calls |-> <<>>]
  /\ proxyOps = [c \in Calls |-> <<>>]
  /\ resolvedAt = [c \in Calls |-> 0]
  /\ inner = [c \in Calls |-> AllPending]
  /\ outer = [c \in Calls |-> AllPending]
  /\ responses = [c \in Calls |-> <<>>]
  /\ outputStream = [c \in Calls |-> <<>>]

\* options.abort is optional: [given |-> FALSE] stands for undefined.
\* late records that the signal was aborted after the call had been made.
NoAbort == [given |-> FALSE, aborted |-> FALSE, late |-> FALSE]
AbortSignals == {NoAbort} \cup [given : {TRUE}, aborted : BOOLEAN, late : {FALSE}]

\* createErrorInterceptor(config): no call has been made yet.  R: the
\* runtimes, O: whether onError is configured, T: the sets of values the
\* inner call may fail with.
ErrorInit(R, O, T) ==
  /\ runtime \in R
  /\ onError \in O
  /\ thrown \in T
  /\ abort = NoAbort
  /\ epc = "idle"
  /\ etype = "none"
  /\ finished = Pending
  /\ einner = AllPending
  /\ eouter = AllPending
  /\ eresponses = <<>>
  /\ eoutputStream = <<>>
  /\ onErrorLog = <<>>
  /\ mapLog = <<>>
  /\ enextLog = <<>>

\* new GrpcWebHybridTransport(options): no call has been made yet.  L: the
\* interceptor lists.
RouterInit(L) ==
  /\ interceptors \in L
  /\ rpc = "idle"
  /\ rtype = "none"
  /\ chain = <<>>
  /\ passed = [given |-> FALSE, list |-> <<>>]
  /\ entries = 0
  /\ hookRuns = [i \in DOMAIN interceptors |-> 0]
  /\ connections = 0
  /\ events = <<>>
  /\ deferreds = AllPending
  /\ responseStream = <<>>
  /\ fetchCalls = <<>>
  /\ attempts = [ch \in Channels |-> 0]

\* The parts a specification does not exercise.
MetadataIdle == MetadataInit({[metadata |-> [kind |-> "static", value |-> EmptyMeta], callTypes |-> NoCallTypes]})
ErrorIdle == ErrorInit({"atob"}, {FALSE}, {{}})
RouterIdle == RouterInit({<<>>})
CodecIdle == codecOp = "idle" /\ codecVals = <<>>

InitWith(C) == MetadataInit(C) /\ ErrorIdle /\ RouterIdle /\ CodecIdle

callVars == <<pendingCall, pendingMessages, sendCompleted, requests, proxyOps, resolvedAt>>
settleVars == <<inner, outer, responses, outputStream>>

\* What the environment has done so far, over all calls.
RECURSIVE Total(_, _)
Total(f, n) == IF n = 0 THEN 0 ELSE f[n] + Total(f, n - 1)
Ops == Total([c \in Calls |-> Len(proxyOps[c])], MaxCalls)
Settles == Total([c \in Calls |-> Cardinality({ch \in Channels : inner[c][ch].state # "pending"})], MaxCalls)
StreamEvents == Total([c \in Calls |-> Len(responses[c])], MaxCalls)
Events == Ops + Settles + StreamEvents

\* Calls are numbered in the order the hooks are entered.
IsNextCall(c) == pc[c] = "idle" /\ \A d \in Calls : d < c => pc[d] # "idle"

\* if (!shouldIntercept(type)) return next(method, input, options);
\* the hook returns the very call next returned.
PassThrough(c, type, method, input, options) ==
  /\ pc' = [pc EXCEPT ![c] = "passthrough"]
  /\ args' = [args EXCEPT ![c] = [callType |-> type, method |-> method, input |-> input, options |-> options]]
  /\ nextLog' = [nextLog EXCEPT ![c] = Append(@, NextCall(method, input, options, "hook"))]
  /\ returned' = [returned EXCEPT ![c] = "inner"]
  /\ UNCHANGED <<providerLog, provider>>

\* An intercepting branch that invokes next at once, before the metadata is
\* there.
InterceptEager(c, type, method, input, options, R) ==
  /\ pc' = [pc EXCEPT ![c] = "hooked"]
  /\ args' = [args EXCEPT ![c] = [callType |-> type, method |-> method, input |-> input, options |-> options]]
  /\ providerLog' = InvokeProvider(providerLog, MetadataContext(type, method))
  /\ \E p \in resolveMetadata(R) : provider' = [provider EXCEPT ![c] = p]
  /\ returned' = [returned EXCEPT ![c] = "proxy"]
  /\ nextLog' = [nextLog EXCEPT ![c] = Append(@, NextCall(method, input, options, "hook"))]

\* The intercepting branch of a hook up to its return: the context is built,
\* resolveMetadata is called and a reaction is registered on its promise; the
\* hook returns a call of its own making.
Intercept(c, type, method, input, options, R) ==
  /\ pc' = [pc EXCEPT ![c] = "hooked"]
  /\ args' = [args EXCEPT ![c] = [callType |-> type, method |-> method, input |-> input, options |-> options]]
  /\ providerLog' = InvokeProvider(providerLog, MetadataContext(type, method))
  /\ \E p \in resolveMetadata(R) : provider' = [provider EXCEPT ![c] = p]
  /\ returned' = [returned EXCEPT ![c] = "proxy"]
  /\ UNCHANGED nextLog

\* ------------------------------------------------------------------ actions
interceptUnary(c, A, R) ==
  /\ IsNextCall(c)
  /\ \E a \in A :
       IF ~shouldIntercept("unary")
       THEN PassThrough(c, "unary", a.method, a.input, a.options)
       ELSE Intercept(c, "unary", a.method, a.input, a.options, R)
  /\ UNCHANGED <<codecVars, errVars, routerVars, config, callVars, settleVars>>

interceptServerStreaming(c, A, R) ==
  /\ IsNextCall(c)
  /\ \E a \in A :
       IF ~shouldIntercept("serverStreaming")
       THEN PassThrough(c, "serverStreaming", a.method, a.input, a.options)
       ELSE Intercept(c, "serverStreaming", a.method, a.input, a.options, R)
  /\ UNCHANGED <<codecVars, errVars, routerVars, config, callVars, settleVars>>

interceptClientStreaming(c, A, R) ==
  /\ IsNextCall(c)
  /\ \E a \in {NoInput(x) : x \in A} :
       IF ~shouldIntercept("clientStreaming")
       THEN PassThrough(c, "clientStreaming", a.method, a.input, a.options)
       ELSE Intercept(c, "clientStreaming", a.method, a.input, a.options, R)
  /\ UNCHANGED <<codecVars, errVars, routerVars, config, callVars, settleVars>>

interceptDuplex(c, A, R) ==
  /\ IsNextCall(c)
  /\ \E a \in {NoInput(x) : x \in A} :
       IF ~shouldIntercept("duplex")
       THEN PassThrough(c, "duplex", a.method, a.input, a.options)
       ELSE Intercept(c, "duplex", a.method, a.input, a.options, R)
  /\ UNCHANGED <<codecVars, errVars, routerVars, config, callVars, settleVars>>

\* The provider's pending promise settles (the environment's step).
ProviderSettles(c, R) ==
  /\ pc[c] = "hooked"
  /\ provider[c].state = "pending"
  /\ \E p \in R \ {Pending} :
       provider' = [provider EXCEPT ![c] = p]
  /\ UNCHANGED <<codecVars, errVars, routerVars, config, providerLog, pc, args, nextLog, returned, callVars, settleVars>>

\* A reaction registered with .then(onFulfilled) runs once its promise is
\* fulfilled, in a later microtask.
ThenReady(p) == p.state = "fulfilled"

\* The invocation of next from a reaction, with the merged metadata.
Delegate(c) ==
  nextLog' = [nextLog EXCEPT ![c] = Append(@, NextCall(args[c].method, args[c].input, WithMeta(args[c].options, MergeMeta(args[c].options.meta, provider[c].value)), "reaction"))]

\* interceptUnary / interceptServerStreaming: the .then((resolved) => ...)
\* reaction of callPromise.  The promises of the returned call are chained
\* from callPromise and follow the inner call's from here on.
InputResolved(c) ==
  /\ pc[c] = "hooked"
  /\ args[c].callType \in InputShapes
  /\ ThenReady(provider[c])
  /\ Delegate(c)
  /\ pc' = [pc EXCEPT ![c] = "delegated"]
  /\ UNCHANGED <<codecVars, errVars, routerVars, config, providerLog, args, provider, returned, callVars, settleVars>>

\* A chain that leaves the status promise out.
ChainRejectedPartly(type, reason) == [ch \in Channels |-> IF ch \in ChannelsOf(type) \ {"status"} THEN Rejected(reason) ELSE Pending]

\* callPromise.then((c) => c.headers) and its siblings when callPromise is
\* rejected: a .then without onRejected passes the rejection on.
ChainRejected(type, reason) == [ch \in Channels |-> IF ch \in ChannelsOf(type) THEN Rejected(reason) ELSE Pending]

InputRejected(c) ==
  /\ pc[c] = "hooked"
  /\ args[c].callType \in InputShapes
  /\ provider[c].state = "rejected"
  /\ outer' = [outer EXCEPT ![c] = ChainRejected(args[c].callType, provider[c].value)]
  /\ pc' = [pc EXCEPT ![c] = "failed"]
  /\ UNCHANGED <<codecVars, errVars, routerVars, config, providerLog, args, provider, nextLog, returned, callVars, inner, responses, outputStream>>

\* interceptClientStreaming / interceptDuplex: the .then((resolved) => ...)
\* reaction: next is invoked, pendingCall is set, the forwarders are
\* registered, the buffer is flushed and emptied and the buffered complete
\* signal is passed on.  No reaction is registered for a rejection.
StreamResolved(c) ==
  /\ pc[c] = "hooked"
  /\ args[c].callType \in StreamShapes
  /\ ThenReady(provider[c])
  /\ Delegate(c)
  /\ pendingCall' = [pendingCall EXCEPT ![c] = TRUE]
  /\ requests' = [requests EXCEPT ![c] = @ \o FlushedRequests(pendingMessages[c], sendCompleted[c])]
  /\ pendingMessages' = [pendingMessages EXCEPT ![c] = Truncated(@)]
  /\ resolvedAt' = [resolvedAt EXCEPT ![c] = Len(proxyOps[c])]
  /\ pc' = [pc EXCEPT ![c] = "delegated"]
  /\ UNCHANGED <<codecVars, errVars, routerVars, config, providerLog, args, provider, returned, sendCompleted, proxyOps, settleVars>>

\* The promise reactions a hook registers.
Reactions(c) == InputResolved(c) \/ InputRejected(c) \/ StreamResolved(c)

\* requestStream.send of the proxy.
ProxySendQueue(call, q, m) == IF call THEN q ELSE Append(q, m)
ProxySendForward(call, log, m) == IF call THEN Append(log, SendOp(m)) ELSE log

\* A proxy whose pendingCall is one variable of the interceptor instance,
\* set by whichever call was created: a send goes to the request stream of
\* the call of the highest number that has been created.
ProxySendShared(c, m) ==
  /\ pc[c] \in {"hooked", "delegated"}
  /\ args[c].callType \in StreamShapes
  /\ Events < MaxEvents
  /\ LET created == {d \in Calls : pendingCall[d]}
         target == CHOOSE d \in created : \A e \in created : e <= d
     IN IF created = {}
        THEN /\ pendingMessages' = [pendingMessages EXCEPT ![c] = Append(@, m)]
             /\ UNCHANGED requests
        ELSE /\ requests' = [requests EXCEPT ![target] = Append(@, SendOp(m))]
             /\ UNCHANGED pendingMessages
  /\ proxyOps' = [proxyOps EXCEPT ![c] = Append(@, SendOp(m))]
  /\ UNCHANGED <<codecVars, errVars, routerVars, config, providerLog, pc, args, provider, nextLog, returned, pendingCall, sendCompleted, resolvedAt, settleVars>>

ProxySend(c, m) ==
  /\ pc[c] \in {"hooked", "delegated"}
  /\ args[c].callType \in StreamShapes
  /\ Events < MaxEvents
  /\ requests' = [requests EXCEPT ![c] = ProxySendForward(pendingCall[c], @, m)]
  /\ pendingMessages' = [pendingMessages EXCEPT ![c] = ProxySendQueue(pendingCall[c], @, m)]
  /\ proxyOps' = [proxyOps EXCEPT ![c] = Append(@, SendOp(m))]
  /\ UNCHANGED <<codecVars, errVars, routerVars, config, providerLog, pc, args, provider, nextLog, returned, pendingCall, sendCompleted, resolvedAt, settleVars>>

\* requestStream.complete of the proxy.
ProxyCompleteFlag(call, flag) == IF call THEN flag ELSE TRUE
ProxyCompleteForward(call, log) == IF call THEN Append(log, CompleteOp) ELSE log

ProxyComplete(c) ==
  /\ pc[c] \in {"hooked", "delegated"}
  /\ args[c].callType \in StreamShapes
  /\ Events < MaxEvents
  /\ requests' = [requests EXCEPT ![c] = ProxyCompleteForward(pendingCall[c], @)]
  /\ sendCompleted' = [sendCompleted EXCEPT ![c] = ProxyCompleteFlag(pendingCall[c], @)]
  /\ proxyOps' = [proxyOps EXCEPT ![c] = Append(@, CompleteOp)]
  /\ UNCHANGED <<codecVars, errVars, routerVars, config, providerLog, pc, args, provider, nextLog, returned, pendingCall, pendingMessages, resolvedAt, settleVars>>

\* A settlement promise of the inner call settles, and the promise of the
\* returned call that follows it settles the same way
\* (chained for unary/serverStreaming, through the Deferred forwarders
\* .then(resolve).catch(reject) for clientStreaming/duplex).
ForwardedFulfilmentOnly(p) == IF p.state = "fulfilled" THEN p ELSE Pending

Forwarded(p) == p

InnerSettles(c, ch) ==
  /\ pc[c] = "delegated"
  /\ ch \in ChannelsOf(args[c].callType)
  /\ inner[c][ch].state = "pending"
  /\ Events < MaxEvents
  /\ \E p \in {Fulfilled(ch), Rejected(InnerError)} :
       /\ inner' = [inner EXCEPT ![c][ch] = p]
       /\ outer' = [outer EXCEPT ![c][ch] = Forwarded(p)]
  /\ UNCHANGED <<codecVars, errVars, routerVars, config, providerLog, pc, args, provider, nextLog, returned, callVars, responses, outputStream>>

\* The inner call's response stream emits, and the onNext callback passes
\* the event to the returned call's stream.
InnerEmits(c) ==
  /\ pc[c] = "delegated"
  /\ HasStream(args[c].callType)
  /\ ~StreamClosed(responses[c])
  /\ Events < MaxEvents
  /\ \E ev \in ({MessageEvent(m) : m \in Msgs} \cup {ErrorEvent(InnerError), CompleteEvent}) :
       /\ responses' = [responses EXCEPT ![c] = Append(@, ev)]
       /\ outputStream' = [outputStream EXCEPT ![c] = OnNext(@, ev)]
  /\ UNCHANGED <<codecVars, errVars, routerVars, config, providerLog, pc, args, provider, nextLog, returned, callVars, inner, outer>>

\* Calls followed through their whole life.
Init == InitWith(LifeConfigs)

Next ==
  \E c \in LifeCalls :
    \/ interceptUnary(c, LifeArgs, LifeResults)
    \/ interceptServerStreaming(c, LifeArgs, LifeResults)
    \/ interceptClientStreaming(c, LifeArgs, LifeResults)
    \/ interceptDuplex(c, LifeArgs, LifeResults)
    \/ ProviderSettles(c, LifeResults)
    \/ InputResolved(c)
    \/ InputRejected(c)
    \/ StreamResolved(c)
    \/ \E m \in Msgs : ProxySend(c, m)
    \/ ProxyComplete(c)
    \/ \E ch \in Channels : InnerSettles(c, ch)
    \/ InnerEmits(c)

Spec == Init /\ [][Next]_vars

\* Calls with every configuration, argument and provider result, up to the
\* delegation to next.
InitArgs == InitWith(Configs)

NextArgs ==
  \E c \in LifeCalls :
    \/ interceptUnary(c, CallArgs, ProviderResults)
    \/ interceptServerStreaming(c, CallArgs, ProviderResults)
    \/ interceptClientStreaming(c, CallArgs, ProviderResults)
    \/ interceptDuplex(c, CallArgs, ProviderResults)
    \/ ProviderSettles(c, ProviderResults)
    \/ InputResolved(c)
    \/ InputRejected(c)
    \/ StreamResolved(c)

SpecArgs == InitArgs /\ [][NextArgs]_vars

\* Several calls in flight through one interceptor instance, up to the
\* delegation to next.
NextMany ==
  \E c \in Calls :
    \/ interceptUnary(c, ManyArgs, LifeResults)
    \/ interceptServerStreaming(c, ManyArgs, LifeResults)
    \/ interceptClientStreaming(c, ManyArgs, LifeResults)
    \/ interceptDuplex(c, ManyArgs, LifeResults)
    \/ ProviderSettles(c, LifeResults)
    \/ InputResolved(c)
    \/ InputRejected(c)
    \/ StreamResolved(c)

InitMany == InitWith(ManyConfigs)

SpecMany == InitMany /\ [][NextMany]_vars

\* ------------------------------------------------------------------ claims
\* The calls whose hook built a proxy request stream.
ProxiedStreams == {c \in Calls : pc[c] \in {"hooked", "delegated"} /\ args[c].callType \in StreamShapes}
DelegatedStreams == {c \in ProxiedStreams : pc[c] = "delegated"}

\* The messages of the send operations of a log, in order.
IsSend(o) == o.op = "send"
IsComplete(o) == o.op = "complete"
Sent(log) == [i \in 1 .. Len(SelectSeq(log, IsSend)) |-> SelectSeq(log, IsSend)[i].msg]
Completes(log) == Len(SelectSeq(log, IsComplete))
\* What the caller did before and after the inner call was created.
Before(c) == SubSeq(proxyOps[c], 1, resolvedAt[c])
After(c) == SubSeq(proxyOps[c], resolvedAt[c] + 1, Len(proxyOps[c]))

\* C1: on a clientStreaming or duplex call, the messages the inner request
\* stream has received are exactly the messages the caller sent on the proxy,
\* each once and in the caller's order, whether sent before or after the
\* inner call was created; until then nothing is delivered and every sent
\* message is held in the buffer, in order.
C1_SendOrder ==
  \A c \in ProxiedStreams :
    IF pc[c] = "delegated"
    THEN Sent(requests[c]) = Sent(proxyOps[c])
    ELSE requests[c] = <<>> /\ pendingMessages[c] = Sent(proxyOps[c])

\* Two different messages were buffered and a third was sent after the flush.
C1_Witness ==
  \E c \in DelegatedStreams :
    /\ resolvedAt[c] = 2 /\ Len(proxyOps[c]) = 3
    /\ \A i \in 1 .. 3 : IsSend(proxyOps[c][i])
    /\ proxyOps[c][1] # proxyOps[c][2]

\* C2: when the caller completed the proxy before the inner call was
\* created, the inner request stream gets, at its creation, every buffered
\* message and then complete: complete comes right after the buffered
\* messages and once; every further complete it gets is one the caller made
\* afterwards.
C2_BufferedComplete ==
  \A c \in DelegatedStreams :
    Completes(Before(c)) > 0 =>
      /\ Len(requests[c]) > Len(Sent(Before(c)))
      /\ \A i \in 1 .. Len(Sent(Before(c))) : requests[c][i] = SendOp(Sent(Before(c))[i])
      /\ requests[c][Len(Sent(Before(c))) + 1] = CompleteOp
      /\ Completes(requests[c]) = 1 + Completes(After(c))

\* A message and the complete signal were buffered, and flushed.
C2_Witness ==
  \E c \in DelegatedStreams :
    /\ Completes(Before(c)) > 0
    /\ Len(Sent(Before(c))) > 0

\* C3: a proxied call buffers until the provider's result is fulfilled and
\* the inner call is created, which happens once; from then on the buffer
\* is empty, and the inner request stream has received, after the flushed
\* operations, exactly the operations the caller made since, in order.
C3_Phases ==
  \A c \in ProxiedStreams :
    /\ pendingCall[c] <=> pc[c] = "delegated"
    /\ Len(nextLog[c]) = IF pendingCall[c] THEN 1 ELSE 0
    /\ pendingCall[c] => provider[c].state = "fulfilled"
    /\ pendingCall[c] => pendingMessages[c] = <<>>
    /\ pendingCall[c] => Len(requests[c]) >= Len(After(c))
    /\ pendingCall[c] => SubSeq(requests[c], Len(requests[c]) - Len(After(c)) + 1, Len(requests[c])) = After(c)
    /\ pendingCall[c] => Len(requests[c]) = Len(Sent(Before(c))) + (IF Completes(Before(c)) > 0 THEN 1 ELSE 0) + Len(After(c))

\* A call that buffered, was flushed and then forwarded directly.
C3_Witness ==
  \E c \in DelegatedStreams :
    /\ resolvedAt[c] > 0
    /\ Len(proxyOps[c]) > resolvedAt[c]
    /\ IsSend(proxyOps[c][1])

\* The calls whose hook returned a call of its own making, by shape.
Proxied(types) == {c \in Calls : returned[c] = "proxy" /\ args[c].callType \in types}
\* The call has no reaction left to run.
Quiet(c) == ~ENABLED Reactions(c)

\* C4: on a clientStreaming or duplex call whose provider result is
\* rejected, once no reaction of the call is left to run, every settlement
\* promise of the returned call is rejected with the provider's rejection.
C4_StreamRejection ==
  \A c \in Proxied(StreamShapes) :
    (provider[c].state = "rejected" /\ Quiet(c)) =>
      \A ch \in ChannelsOf(args[c].callType) : outer[c][ch] = Rejected(provider[c].value)

\* C5: on a unary call whose provider result is rejected, next is not
\* invoked, and once the rejection's reaction has run all four settlement
\* promises of the returned call are rejected with the provider's rejection.
C5_UnaryRejection ==
  \A c \in Proxied({"unary"}) :
    provider[c].state = "rejected" =>
      /\ nextLog[c] = <<>>
      /\ Quiet(c) => \A ch \in Channels : outer[c][ch] = Rejected(provider[c].value)

\* A unary call has failed with its provider's rejection.
C5_Witness ==
  \E c \in Proxied({"unary"}) : pc[c] = "failed" /\ provider[c].state = "rejected"

\* C6: on a serverStreaming call whose provider result is rejected, once no
\* reaction of the call is left to run, the response stream of the returned
\* call has been ended with the provider's rejection.
C6_StreamTerminated ==
  \A c \in Proxied({"serverStreaming"}) :
    (provider[c].state = "rejected" /\ Quiet(c)) =>
      outputStream[c] = <<ErrorEvent(provider[c].value)>>

\* C7: on an intercepted unary or serverStreaming call, as long as the
\* provider's result is not fulfilled next has not been invoked, and while
\* it is pending no promise of the returned call is settled and its
\* response stream has emitted nothing; next is invoked at most once, from
\* the reaction, and has been invoked once the call is delegated.
C7_WaitsForProvider ==
  \A c \in Proxied(InputShapes) :
    /\ provider[c].state # "fulfilled" => nextLog[c] = <<>>
    /\ provider[c].state = "pending" => outer[c] = AllPending /\ outputStream[c] = <<>>
    /\ nextLog[c] = <<>> => inner[c] = AllPending /\ responses[c] = <<>>
    /\ Len(nextLog[c]) <= 1
    /\ \A i \in 1 .. Len(nextLog[c]) : nextLog[c][i].during = "reaction"
    /\ pc[c] = "delegated" => Len(nextLog[c]) = 1

\* A delegated unary or serverStreaming call whose inner call has settled a promise.
C7_Witness ==
  \E c \in Proxied(InputShapes) :
    /\ config.metadata.kind = "function"
    /\ Len(nextLog[c]) = 1
    /\ \E ch \in Channels : outer[c][ch].state # "pending"

\* The meta handed to next, the caller's entries and the resolved entries.
PassedMeta(c) == nextLog[c][1].options.meta
CallerEntries(c) == IF args[c].options.meta.given THEN args[c].options.meta.map ELSE EmptyMeta
ResolvedEntries(c) == provider[c].value

\* C8: on every intercepted call, of any shape, the meta passed to next
\* holds every resolved entry, every caller entry whose key is not resolved,
\* and nothing else.
C8_MergeRule ==
  \A c \in Proxied(CallType) :
    nextLog[c] # <<>> =>
      /\ PassedMeta(c).given
      /\ \A k \in DOMAIN ResolvedEntries(c) : k \in DOMAIN PassedMeta(c).map /\ PassedMeta(c).map[k] = ResolvedEntries(c)[k]
      /\ \A k \in DOMAIN CallerEntries(c) \ DOMAIN ResolvedEntries(c) : k \in DOMAIN PassedMeta(c).map /\ PassedMeta(c).map[k] = CallerEntries(c)[k]
      /\ DOMAIN PassedMeta(c).map \subseteq DOMAIN CallerEntries(c) \cup DOMAIN ResolvedEntries(c)

\* The resolved k1 overwrote the caller's k1 and the caller's k2 was kept.
C8_Witness ==
  \E c \in Proxied(CallType) :
    /\ nextLog[c] # <<>>
    /\ DOMAIN CallerEntries(c) = {"k1", "k2"}
    /\ DOMAIN ResolvedEntries(c) = {"k1"}

\* The shape is left out by the configured callTypes.
Excluded(type) == config.callTypes.given /\ type \notin config.callTypes.list
Started == {c \in Calls : pc[c] # "idle"}

\* C9: a call of a shape the configured callTypes leave out has had next
\* invoked once, within the hook, with the caller's method, input and
\* options, and the hook returned next's call; it never has the provider
\* invoked.  A call of any other shape gets a call of the hook's making and
\* no invocation of next within the hook, and a function provider has been
\* invoked once for each such call.
C9_CallTypeFilter ==
  /\ \A c \in Started :
       IF Excluded(args[c].callType)
       THEN /\ nextLog[c] = <<[method |-> args[c].method, input |-> args[c].input, options |-> args[c].options, during |-> "hook"]>>
            /\ returned[c] = "inner"
            /\ provider[c] = Pending
       ELSE /\ returned[c] = "proxy"
            /\ \A i \in 1 .. Len(nextLog[c]) : nextLog[c][i].during = "reaction"
  /\ \A i \in 1 .. Len(providerLog) : ~Excluded(providerLog[i].callType)
  /\ config.metadata.kind = "function" => Len(providerLog) = Cardinality({c \in Started : ~Excluded(args[c].callType)})

\* A call passed through by a filter in front of a function provider.
C9_Witness ==
  \E c \in Started :
    /\ Excluded(args[c].callType)
    /\ config.metadata.kind = "function"
    /\ args[c].options.meta.given

\* The contexts of the intercepted calls among the first n calls, in the
\* order of the calls.
RECURSIVE ContextsOf(_)
ContextsOf(n) ==
  IF n = 0 THEN <<>>
  ELSE ContextsOf(n - 1) \o (IF n \in Started /\ ~Excluded(args[n].callType) THEN <<[callType |-> args[n].callType, method |-> args[n].method]>> ELSE <<>>)

\* C10: a function provider has been invoked once for each intercepted
\* call, in the order of the calls, each time with the shape of the hook
\* that fired and the method of the call.
C10_ProviderOncePerCall ==
  providerLog = IF config.metadata.kind = "function" THEN ContextsOf(MaxCalls) ELSE <<>>

\* Two intercepted calls of the same shape and method, the provider invoked for each.
C10_Witness ==
  /\ Len(providerLog) = 2
  /\ providerLog[1] = providerLog[2]
  /\ config.callTypes.given

\* ============================================ part 2: the error interceptor
\* GrpcStatusCode: the names of the gRPC status codes.
GrpcStatusCode == {"OK", "CANCELLED", "UNKNOWN", "INVALID_ARGUMENT", "DEADLINE_EXCEEDED", "NOT_FOUND", "ALREADY_EXISTS", "PERMISSION_DENIED", "RESOURCE_EXHAUSTED", "FAILED_PRECONDITION", "ABORTED", "OUT_OF_RANGE", "UNIMPLEMENTED", "INTERNAL", "UNAVAILABLE", "DATA_LOSS", "UNAUTHENTICATED"}
\* RpcError.code is a string: a transport may report a name that is not in
\* GrpcStatusCode.
WireCodes == GrpcStatusCode \cup {"NotFound"}

\* typeof atob === 'function', else typeof Buffer !== 'undefined', else neither.
Runtimes == {"atob", "Buffer", "none"}

\* e.meta['grpc-status-details-bin'].  A header that is given is a string:
\* strict says whether it is well-formed base64, bytes what its base64
\* characters decode to: bytes the codec rejects, or a status envelope.
NoHeader == [given |-> FALSE, strict |-> FALSE, bytes |-> "none"]
Headers == {NoHeader} \cup [given : {TRUE}, strict : BOOLEAN, bytes : {"garbage", "envelope"}]
\* The details of the envelope a header may carry.
EnvelopeDetails == <<"badRequest", "localizedMessage">>

\* Object identity: who created the object, and which of its objects it is.
NoRef == [by |-> "none", n |-> 0]
InnerRef(n) == [by |-> "inner", n |-> n]
MappedRef(n) == [by |-> "mapRpcError", n |-> n]

\* The values a promise of the inner call is rejected with, or its response
\* stream reports: an RpcError, another Error, a value that is not an Error.
RpcErrorOf(code, header) == [class |-> "RpcError", code |-> code, header |-> header, details |-> <<>>, cause |-> NoRef, ref |-> InnerRef(1)]
PlainError == [class |-> "Error", code |-> "none", header |-> NoHeader, details |-> <<>>, cause |-> NoRef, ref |-> InnerRef(2)]
NonError == [class |-> "nonError", code |-> "none", header |-> NoHeader, details |-> <<>>, cause |-> NoRef, ref |-> InnerRef(3)]
AllThrown == {RpcErrorOf(c, h) : c \in WireCodes, h \in Headers} \cup {PlainError, NonError}
\* The failures of the runs that follow a call of every shape.
LifeThrown == {RpcErrorOf("NOT_FOUND", [given |-> TRUE, strict |-> TRUE, bytes |-> "envelope"]), PlainError, NonError}

\* The outcome of a call that may throw.
Threw == [threw |-> TRUE, value |-> "none"]
Returned(v) == [threw |-> FALSE, value |-> v]

\* decodeBase64: atob rejects a string that is not well-formed base64;
\* Buffer.from(base64, 'base64') decodes the base64 characters it finds and
\* rejects nothing; without either, 'No base64 decoder available' is thrown.
decodeBase64(base64) ==
  CASE runtime = "atob" -> IF base64.strict THEN Returned(base64.bytes) ELSE Threw
    [] runtime = "Buffer" -> Returned(base64.bytes)
    [] OTHER -> Threw

\* decodeGrpcStatus: parseStatus reads tags and fields with a BinaryReader,
\* which throws on bytes that are not a message.
decodeGrpcStatus(data) == IF data = "envelope" THEN Returned(EnvelopeDetails) ELSE Threw

\* parseRichErrorDetails without its try/catch.
ParseUncaught(richError) ==
  IF ~richError.given THEN Returned(<<>>)
  ELSE IF decodeBase64(richError).threw THEN Threw
  ELSE decodeGrpcStatus(decodeBase64(richError).value)

\* parseRichErrorDetails: no header gives { details: [] }; whatever
\* decodeBase64 or decodeGrpcStatus throws is caught and gives { details: [] }.
parseRichErrorDetails(richError) ==
  IF ~richError.given THEN Returned(<<>>)
  ELSE IF decodeBase64(richError).threw THEN Returned(<<>>)
  ELSE IF decodeGrpcStatus(decodeBase64(richError).value).threw THEN Returned(<<>>)
  ELSE Returned(decodeGrpcStatus(decodeBase64(richError).value).value)

\* GrpcErrorOptions, and the GrpcError constructor:
\* details = options?.details ?? [], cause = options?.cause.
NoOptions == [details |-> <<>>, cause |-> NoRef]
ErrorOptions(details, e) == [details |-> details, cause |-> e.ref]
GrpcError(class, options, ref) == [class |-> class, code |-> "none", header |-> NoHeader, details |-> options.details, cause |-> options.cause, ref |-> ref]
\* What a throwing codec leaves behind when nothing catches it.
CodecFailure == [class |-> "RangeError", code |-> "none", header |-> NoHeader, details |-> <<>>, cause |-> NoRef, ref |-> InnerRef(4)]

\* A switch without the FAILED_PRECONDITION case.
StatusCodeSwitchShort(code) ==
  CASE code \in {"CANCELLED", "ABORTED"} -> "AbortedError"
    [] code = "UNAUTHENTICATED" -> "UnauthenticatedError"
    [] code = "UNAVAILABLE" -> "UnavailableError"
    [] code = "ALREADY_EXISTS" -> "AlreadyExistsError"
    [] code = "NOT_FOUND" -> "NotFoundError"
    [] code = "INVALID_ARGUMENT" -> "ValidationError"
    [] code = "DEADLINE_EXCEEDED" -> "DeadlineExceededError"
    [] code = "PERMISSION_DENIED" -> "PermissionDeniedError"
    [] OTHER -> "UnknownError"

\* mapRpcError, switch (e.code): the class of the error that is constructed.
StatusCodeSwitch(code) ==
  CASE code \in {"CANCELLED", "ABORTED"} -> "AbortedError"
    [] code = "UNAUTHENTICATED" -> "UnauthenticatedError"
    [] code = "UNAVAILABLE" -> "UnavailableError"
    [] code = "ALREADY_EXISTS" -> "AlreadyExistsError"
    [] code = "NOT_FOUND" -> "NotFoundError"
    [] code \in {"INVALID_ARGUMENT", "FAILED_PRECONDITION"} -> "ValidationError"
    [] code = "DEADLINE_EXCEEDED" -> "DeadlineExceededError"
    [] code = "PERMISSION_DENIED" -> "PermissionDeniedError"
    [] OTHER -> "UnknownError"

\* The outcome of mapRpcError: the error it returns, whether it invoked
\* onError?.(error) on the way, whether it threw instead of returning.
MapResult(error, notified) == [threw |-> FALSE, error |-> error, notified |-> notified]
MapThrew == [threw |-> TRUE, error |-> CodecFailure, notified |-> FALSE]

\* A mapRpcError that wraps every value that is not an RpcError.
MapWrapsErrors(e, aborted, ref) ==
  IF e.class # "RpcError" THEN MapResult(GrpcError("UnknownError", NoOptions, ref), FALSE)
  ELSE IF aborted THEN MapResult(GrpcError("AbortedError", NoOptions, ref), TRUE)
  ELSE MapResult(GrpcError(StatusCodeSwitch(e.code), ErrorOptions(parseRichErrorDetails(e.header).value, e), ref), TRUE)

\* A mapRpcError that looks at the status code before the abort signal.
MapCodeFirst(e, aborted, ref) ==
  IF e.class # "RpcError" THEN MapResult(IF e.class = "Error" THEN e ELSE GrpcError("UnknownError", NoOptions, ref), FALSE)
  ELSE IF aborted /\ StatusCodeSwitch(e.code) = "UnknownError" THEN MapResult(GrpcError("AbortedError", NoOptions, ref), TRUE)
  ELSE MapResult(GrpcError(StatusCodeSwitch(e.code), ErrorOptions(parseRichErrorDetails(e.header).value, e), ref), TRUE)

\* mapRpcError(e, abort, onError, callSiteStack); aborted is abort?.aborted
\* when it runs, ref the identity of the object it constructs, if any.
\*   not an RpcError: e itself if it is an Error, else new UnknownError();
\*   abort?.aborted:  new AbortedError();
\*   else:            the class the switch selects, with the parsed details
\*                    and cause e.
mapRpcError(e, aborted, ref) ==
  IF e.class # "RpcError" THEN MapResult(IF e.class = "Error" THEN e ELSE GrpcError("UnknownError", NoOptions, ref), FALSE)
  ELSE IF aborted THEN MapResult(GrpcError("AbortedError", NoOptions, ref), TRUE)
  ELSE IF parseRichErrorDetails(e.header).threw THEN MapThrew
  ELSE MapResult(GrpcError(StatusCodeSwitch(e.code), ErrorOptions(parseRichErrorDetails(e.header).value, e), ref), TRUE)

\* mapRpcError(e, options.abort, onError, callSiteStack) as a hook calls it.
Mapped(e) == mapRpcError(e, abort.given /\ abort.aborted, MappedRef(Len(mapLog) + 1))

\* onError?.(error)
Notify(log, m) == IF onError /\ m.notified THEN Append(log, m.error) ELSE log
\* One invocation of mapRpcError: its argument, abort?.aborted, its outcome.
Invocation(e, m) == [e |-> e, aborted |-> abort.given /\ abort.aborted, result |-> m]

\* deferred.reject(mapRpcError(...)): nothing is rejected when mapRpcError throws.
RejectMapped(p, m) == IF m.threw THEN p ELSE Rejected(m.error)

\* What the environment has done to the call so far.
ErrEvents == Cardinality({ch \in Channels : einner[ch].state # "pending"}) + Len(eresponses)

\* ------------------------------------------------------------------ actions
\* The part of a hook that is common to the four shapes: the call is made
\* with some abort signal and next is invoked.
\* The caller's options: its abort signal and what else it holds.
CallerOptions(signal, rest) == [abort |-> signal, rest |-> rest]

\* next(method, input, options): the hook passes the object it was given.
NextOptions(options) == options

\* R: what the caller's options hold besides the abort signal.
ErrorHookWith(type, R) ==
  /\ epc = "idle"
  /\ epc' = "called"
  /\ etype' = type
  /\ abort' \in AbortSignals
  /\ \E rest \in R : enextLog' = Append(enextLog, [given |-> CallerOptions(abort', rest), options |-> NextOptions(CallerOptions(abort', rest))])
  /\ UNCHANGED <<codecVars, metaVars, routerVars, runtime, onError, thrown, finished, einner, eouter, eresponses, eoutputStream, onErrorLog, mapLog>>

ErrorHook(type) == ErrorHookWith(type, {"opts1"})

errorInterceptUnary == ErrorHook("unary")
errorInterceptServerStreaming == ErrorHook("serverStreaming")
errorInterceptClientStreaming == ErrorHook("clientStreaming")
errorInterceptDuplex == ErrorHook("duplex")

\* The caller aborts the signal it passed.
AbortFires ==
  /\ epc = "called"
  /\ abort.given /\ ~abort.aborted
  /\ abort' = [abort EXCEPT !.aborted = TRUE, !.late = TRUE]
  /\ UNCHANGED <<codecVars, metaVars, routerVars, enextLog, runtime, onError, thrown, epc, etype, finished, einner, eouter, eresponses, eoutputStream, onErrorLog, mapLog>>

\* UnaryCall.then, which `await next(...)` uses: Promise.all of the four
\* promises.  It rejects with the first rejection and fulfils when all four
\* have fulfilled.
PromiseAll(was, p, all) ==
  IF was.state # "pending" THEN was
  ELSE IF p.state = "rejected" THEN p
  ELSE IF \A ch \in Channels : all[ch].state = "fulfilled" THEN Fulfilled("all")
  ELSE was

\* A settlement promise of the inner call settles.
\*   unary:           the awaited promise follows;
\*   serverStreaming: the returned call holds the inner call's own promise;
\*   clientStreaming, duplex: .then(resolve).catch((e) => reject(mapRpcError(e, ...)))
ErrInnerSettles(ch) ==
  /\ epc = "called"
  /\ ch \in ChannelsOf(etype)
  /\ einner[ch].state = "pending"
  /\ ErrEvents < MaxErrEvents
  /\ \E p \in {Fulfilled(ch)} \cup {Rejected(e) : e \in thrown} :
       /\ einner' = [einner EXCEPT ![ch] = p]
       /\ finished' = IF etype = "unary" THEN PromiseAll(finished, p, [einner EXCEPT ![ch] = p]) ELSE finished
       /\ IF etype \in StreamShapes /\ p.state = "rejected"
          THEN /\ eouter' = [eouter EXCEPT ![ch] = RejectMapped(@, Mapped(p.value))]
               /\ onErrorLog' = Notify(onErrorLog, Mapped(p.value))
               /\ mapLog' = Append(mapLog, Invocation(p.value, Mapped(p.value)))
          ELSE /\ eouter' = IF etype = "unary" THEN eouter ELSE [eouter EXCEPT ![ch] = p]
               /\ UNCHANGED <<onErrorLog, mapLog>>
  /\ UNCHANGED <<codecVars, metaVars, routerVars, enextLog, runtime, onError, thrown, abort, epc, etype, eresponses, eoutputStream>>

\* interceptUnary, after `await next(...)` has fulfilled: the four deferreds
\* are resolved with the inner call's values.
UnaryResolved ==
  /\ epc = "called"
  /\ etype = "unary"
  /\ finished.state = "fulfilled"
  /\ eouter' = einner
  /\ epc' = "done"
  /\ UNCHANGED <<codecVars, metaVars, routerVars, enextLog, runtime, onError, thrown, abort, etype, finished, einner, eresponses, eoutputStream, onErrorLog, mapLog>>

\* A catch block that rejects status$ alone.
UnaryCatchStatusOnly ==
  /\ epc = "called"
  /\ etype = "unary"
  /\ finished.state = "rejected"
  /\ eouter' = [eouter EXCEPT !["status"] = RejectMapped(@, Mapped(finished.value))]
  /\ onErrorLog' = Notify(onErrorLog, Mapped(finished.value))
  /\ mapLog' = Append(mapLog, Invocation(finished.value, Mapped(finished.value)))
  /\ epc' = "done"
  /\ UNCHANGED <<codecVars, metaVars, routerVars, enextLog, runtime, onError, thrown, abort, etype, finished, einner, eresponses, eoutputStream>>

\* interceptUnary, the catch block: one mapRpcError, and the four deferreds
\* are rejected with the error it returned.
UnaryCatch ==
  /\ epc = "called"
  /\ etype = "unary"
  /\ finished.state = "rejected"
  /\ eouter' = [ch \in Channels |-> RejectMapped(eouter[ch], Mapped(finished.value))]
  /\ onErrorLog' = Notify(onErrorLog, Mapped(finished.value))
  /\ mapLog' = Append(mapLog, Invocation(finished.value, Mapped(finished.value)))
  /\ epc' = "done"
  /\ UNCHANGED <<codecVars, metaVars, routerVars, enextLog, runtime, onError, thrown, abort, etype, finished, einner, eresponses, eoutputStream>>

\* Events of a response stream whose errors are objects: (message, error, done).
NoError == [class |-> "none", code |-> "none", header |-> NoHeader, details |-> <<>>, cause |-> NoRef, ref |-> NoRef]
NextMessage(m) == [message |-> m, error |-> NoError, done |-> FALSE]
NextError(e) == [message |-> "none", error |-> e, done |-> FALSE]
NextComplete == [message |-> "none", error |-> NoError, done |-> TRUE]
Closed(s) == Len(s) > 0 /\ (s[Len(s)].error # NoError \/ s[Len(s)].done)

\* interceptServerStreaming / interceptDuplex, the onNext callback:
\*   if (message) notifyMessage(message);
\*   if (error) notifyError(mapRpcError(error, ...));
\*   if (done) notifyComplete();
\* m is the outcome of mapRpcError(error, ...).
ErrorOnNext(stream, ev, m) ==
  LET s1 == IF ev.message # "none" THEN Append(stream, NextMessage(ev.message)) ELSE stream
      s2 == IF ev.error # NoError /\ ~m.threw THEN Append(s1, NextError(m.error)) ELSE s1
  IN IF ev.done THEN Append(s2, NextComplete) ELSE s2

\* The inner call's response stream emits a message of M, an error or the
\* completion.
ErrInnerEmitsOf(M) ==
  /\ epc = "called"
  /\ HasStream(etype)
  /\ ~Closed(eresponses)
  /\ ErrEvents < MaxErrEvents
  /\ \E ev \in {NextMessage(m) : m \in M} \cup {NextComplete} \cup {NextError(e) : e \in thrown} :
       /\ eresponses' = Append(eresponses, ev)
       /\ eoutputStream' = ErrorOnNext(eoutputStream, ev, Mapped(ev.error))
       /\ onErrorLog' = IF ev.error # NoError THEN Notify(onErrorLog, Mapped(ev.error)) ELSE onErrorLog
       /\ mapLog' = IF ev.error # NoError THEN Append(mapLog, Invocation(ev.error, Mapped(ev.error))) ELSE mapLog
  /\ UNCHANGED <<codecVars, metaVars, routerVars, enextLog, runtime, onError, thrown, abort, epc, etype, finished, einner, eouter>>

ErrInnerEmits == ErrInnerEmitsOf({"m1"})

\* A call of every shape, followed through its whole life.
InitErr == MetadataIdle /\ ErrorInit({"atob"}, BOOLEAN, {LifeThrown}) /\ RouterIdle /\ CodecIdle

NextErr ==
  \/ errorInterceptUnary
  \/ errorInterceptServerStreaming
  \/ errorInterceptClientStreaming
  \/ errorInterceptDuplex
  \/ AbortFires
  \/ \E ch \in Channels : ErrInnerSettles(ch)
  \/ UnaryResolved
  \/ UnaryCatch
  \/ ErrInnerEmits

SpecErr == InitErr /\ [][NextErr]_vars

\* A unary call that fails with one value, for every value, on every runtime.
InitMap == MetadataIdle /\ ErrorInit(Runtimes, {TRUE}, {{e} : e \in AllThrown}) /\ RouterIdle /\ CodecIdle

NextMap ==
  \/ errorInterceptUnary
  \/ AbortFires
  \/ \E ch \in Channels : ErrInnerSettles(ch)
  \/ UnaryResolved
  \/ UnaryCatch

SpecMap == InitMap /\ [][NextMap]_vars

\* ---------------------------------------------------------- claims, part 2
\* The errors the caller observes: the rejections of the returned call's
\* promises and the errors of its response stream.
RejectedChannels == {ch \in Channels : eouter[ch].state = "rejected"}
StreamErrors == {eoutputStream[i].error : i \in {j \in 1 .. Len(eoutputStream) : eoutputStream[j].error # NoError}}
Observed == {eouter[ch].value : ch \in RejectedChannels} \cup StreamErrors
\* The failures of the inner call so far.
InnerFailures == {einner[ch].value : ch \in {c \in Channels : einner[c].state = "rejected"}} \cup {eresponses[i].error : i \in {j \in 1 .. Len(eresponses) : eresponses[j].error # NoError}}
\* The classes of the error taxonomy.
GrpcErrorClasses == {"AbortedError", "AlreadyExistsError", "DeadlineExceededError", "NotFoundError", "PermissionDeniedError", "RaceUpdateError", "ValidationError", "UnavailableError", "UnauthenticatedError", "UnknownError"}

\* C11: on a failed call of any shape, whose inner call fails everywhere
\* with one wire error, the rejections the caller observes on the headers,
\* response, status and trailers promises and the error of the response
\* stream are one and the same error object.
C11_SingleInstance ==
  (\E e \in InnerFailures : InnerFailures = {e} /\ e.class = "RpcError")
    => \A x, y \in Observed : x.ref = y.ref

\* C12: for every call shape, a promise of the inner call that is rejected
\* with a wire error, or a wire error on the inner response stream, reaches
\* the caller as a typed GrpcError and never as the RpcError itself.
C12_TypedEverywhere ==
  /\ \A ch \in RejectedChannels : einner[ch].state = "rejected" /\ einner[ch].value.class = "RpcError" => eouter[ch].value.class \in GrpcErrorClasses
  /\ \A x \in StreamErrors : x.class # "RpcError"

\* The status-code table of the error taxonomy.
KindOf(code) ==
  IF code = "CANCELLED" \/ code = "ABORTED" THEN "AbortedError"
  ELSE IF code = "UNAUTHENTICATED" THEN "UnauthenticatedError"
  ELSE IF code = "UNAVAILABLE" THEN "UnavailableError"
  ELSE IF code = "ALREADY_EXISTS" THEN "AlreadyExistsError"
  ELSE IF code = "NOT_FOUND" THEN "NotFoundError"
  ELSE IF code = "INVALID_ARGUMENT" \/ code = "FAILED_PRECONDITION" THEN "ValidationError"
  ELSE IF code = "DEADLINE_EXCEEDED" THEN "DeadlineExceededError"
  ELSE IF code = "PERMISSION_DENIED" THEN "PermissionDeniedError"
  ELSE "UnknownError"

\* The invocations of mapRpcError on a wire error.
WireMappings == {i \in 1 .. Len(mapLog) : mapLog[i].e.class = "RpcError"}
\* The unary call has failed and its catch block has run.
UnaryFailed == etype = "unary" /\ epc = "done" /\ finished.state = "rejected"
\* The caller of the failed unary call observes on all four promises the
\* error the only mapping returned.
DeliversMapping == Len(mapLog) = 1 /\ \A ch \in Channels : eouter[ch].state = "rejected" /\ eouter[ch].value = mapLog[1].result.error

\* C13: a wire error that is mapped while the call's abort signal is
\* aborted is delivered as an AbortedError whatever its status code, and one
\* mapped while the signal is not aborted (or there is none) as the error
\* its status code alone selects.
C13_AbortAtMappingTime ==
  /\ \A i \in WireMappings : mapLog[i].result.error.class = IF mapLog[i].aborted THEN "AbortedError" ELSE KindOf(mapLog[i].e.code)
  /\ UnaryFailed => DeliversMapping

\* A call made with a signal that was not aborted, aborted before its
\* NOT_FOUND failure was mapped.
C13_Witness ==
  /\ UnaryFailed /\ DeliversMapping
  /\ abort.late
  /\ mapLog[1].e.class = "RpcError" /\ mapLog[1].e.code = "NOT_FOUND"
  /\ eouter["status"].value.class = "AbortedError"

\* C14: with the abort signal not set, mapRpcError turns every wire status
\* code into the error class of the table: CANCELLED, ABORTED: aborted;
\* UNAUTHENTICATED: unauthenticated; UNAVAILABLE: unavailable;
\* ALREADY_EXISTS: alreadyExists; NOT_FOUND: notFound; INVALID_ARGUMENT,
\* FAILED_PRECONDITION: validation; DEADLINE_EXCEEDED: deadlineExceeded;
\* PERMISSION_DENIED: permissionDenied; every other code: unknown.
C14_StatusCodeTable ==
  \A i \in WireMappings : ~mapLog[i].aborted =>
    LET code == mapLog[i].e.code
        class == mapLog[i].result.error.class
    IN /\ code \in {"CANCELLED", "ABORTED"} => class = "AbortedError"
       /\ code = "UNAUTHENTICATED" => class = "UnauthenticatedError"
       /\ code = "UNAVAILABLE" => class = "UnavailableError"
       /\ code = "ALREADY_EXISTS" => class = "AlreadyExistsError"
       /\ code = "NOT_FOUND" => class = "NotFoundError"
       /\ code \in {"INVALID_ARGUMENT", "FAILED_PRECONDITION"} => class = "ValidationError"
       /\ code = "DEADLINE_EXCEEDED" => class = "DeadlineExceededError"
       /\ code = "PERMISSION_DENIED" => class = "PermissionDeniedError"
       /\ code \in {"OK", "UNKNOWN", "RESOURCE_EXHAUSTED", "OUT_OF_RANGE", "UNIMPLEMENTED", "INTERNAL", "DATA_LOSS", "NotFound"} => class = "UnknownError"

\* A FAILED_PRECONDITION failure mapped without an aborted signal.
C14_Witness ==
  /\ UnaryFailed
  /\ \E i \in WireMappings : ~mapLog[i].aborted /\ mapLog[i].e.code = "FAILED_PRECONDITION" /\ mapLog[i].result.error.class = "ValidationError"

\* A mapping that returned the typed error of the status code with no
\* details, without throwing.
PlainlyTyped(inv) == ~inv.result.threw /\ inv.result.error.details = <<>> /\ inv.result.error.class = KindOf(inv.e.code)

\* C15 as stated: a wire error whose status-details header is absent, is
\* not well-formed base64, or does not hold a status envelope is mapped to
\* the typed error of its status code with an empty details list, and no
\* exception of the base64 decoder or the codec escapes.
C15_BadHeaderNoDetails ==
  \A i \in WireMappings : ~mapLog[i].aborted /\ (~mapLog[i].e.header.given \/ ~mapLog[i].e.header.strict \/ mapLog[i].e.header.bytes = "garbage")
    => PlainlyTyped(mapLog[i])

\* The runtime's base64 decoder rejects the header: atob rejects what is
\* not well-formed, Buffer rejects nothing, and with neither every header
\* is rejected.
Base64Rejects(header) == (runtime = "atob" /\ ~header.strict) \/ runtime = "none"

\* C15, amended: a wire error whose status-details header is absent, is
\* rejected by the base64 decoder of the runtime, or decodes to bytes that
\* are not a status envelope is mapped to the typed error of its status code
\* with an empty details list; no exception of the decoder or the codec
\* escapes, and the caller observes that typed error.
C15_DecodeFailureNoDetails ==
  /\ \A i \in WireMappings : ~mapLog[i].aborted /\ (~mapLog[i].e.header.given \/ Base64Rejects(mapLog[i].e.header) \/ mapLog[i].e.header.bytes = "garbage")
       => PlainlyTyped(mapLog[i])
  /\ UnaryFailed => DeliversMapping

\* A NOT_FOUND failure whose header atob rejects, delivered as a
\* NotFoundError without details.
C15_Witness ==
  /\ UnaryFailed /\ DeliversMapping
  /\ runtime = "atob" /\ ~abort.aborted
  /\ mapLog[1].e.class = "RpcError" /\ mapLog[1].e.code = "NOT_FOUND"
  /\ mapLog[1].e.header.given /\ ~mapLog[1].e.header.strict
  /\ eouter["response"].value.class = "NotFoundError" /\ eouter["response"].value.details = <<>>

\* C16: a failure that is not an RpcError is delivered as the very same
\* object when it is an Error and as a new UnknownError when it is not,
\* whatever the abort signal says; the status-code table plays no part.
C16_NonWirePassThrough ==
  /\ \A i \in 1 .. Len(mapLog) :
       /\ mapLog[i].e.class = "Error" => ~mapLog[i].result.threw /\ mapLog[i].result.error = mapLog[i].e
       /\ mapLog[i].e.class = "nonError" => ~mapLog[i].result.threw /\ mapLog[i].result.error.class = "UnknownError" /\ mapLog[i].result.error.ref = MappedRef(i)
  /\ UnaryFailed => DeliversMapping

\* A plain Error delivered as itself on all four promises although the
\* signal is aborted.
C16_Witness ==
  /\ UnaryFailed /\ DeliversMapping
  /\ abort.aborted
  /\ finished.value = PlainError
  /\ \A ch \in Channels : eouter[ch].value.ref = InnerRef(2)

\* C17: with onError configured, every error the caller of an intercepted
\* call observes has been handed to onError, whatever the failure was: a
\* wire error, another Error, or a value that is not an Error.
C17_OnErrorForAnyError ==
  onError => \A x \in Observed : \E i \in 1 .. Len(onErrorLog) : onErrorLog[i] = x

\* ========================================= part 3: the dual-transport router
\* An interceptor is the set of stream-shaped hooks it defines; the i-th
\* element of a list is the interceptor i.
InterceptorLists == UNION {[1 .. n -> SUBSET StreamShapes] : n \in 0 .. MaxInterceptors}

\* options.interceptors is optional: [given |-> FALSE] stands for undefined.
\* A list holds the indices of the interceptors.
NoList == [given |-> FALSE, list |-> <<>>]

\* this.defaultOptions = { interceptors: this.interceptors }
DefaultList == [i \in 1 .. Len(interceptors) |-> i]

\* mergeOptions: mergeRpcOptions(this.defaultOptions, options) copies the
\* defaults and appends the interceptors of options to those of the defaults.
mergeOptions(options) == [given |-> TRUE, list |-> IF options.given THEN DefaultList \o options.list ELSE DefaultList]

\* stackIntercept(kind, transport, method, options): the interceptors of
\* options that define the hook, the first one outermost; the innermost next
\* is transport[kind].
stackIntercept(kind, opt) == SelectSeq(opt.list, LAMBDA i : kind \in interceptors[i])

\* A guard that looks at the merged list only.
StackWhenConfigured(opt, options) == Len(opt.list) > 0

\* if (i?.length && !options.interceptors)
ShouldStack(opt, options) == Len(opt.list) > 0 /\ ~options.given

\* grpc.Metadata: keys with lists of values.
GrpcMetadata == {[k \in {} |-> <<>>], [k \in {"k1"} |-> <<>>], [k \in {"k1"} |-> <<"a">>], [k \in {"k1"} |-> <<"a", "b">>]}

\* fromGrpcMetadata: a key with one value maps to that value, a key with
\* several to the list, a key without values is left out.
fromGrpcMetadata(metadata) == [k \in {x \in DOMAIN metadata : Len(metadata[x]) > 0} |-> [list |-> Len(metadata[k]) # 1, values |-> metadata[k]]]

\* grpc.Code, the numeric status codes of the connection, and one number
\* that is no member of the enum.
GrpcCodes == 0 .. 17
CodeNames == <<"OK", "Canceled", "Unknown", "InvalidArgument", "DeadlineExceeded", "NotFound", "AlreadyExists", "PermissionDenied", "ResourceExhausted", "FailedPrecondition", "Aborted", "OutOfRange", "Unimplemented", "Internal", "Unavailable", "DataLoss", "Unauthenticated">>
\* toRpcStatusCode: grpc.Code[code] ?? 'UNKNOWN'
toRpcStatusCode(code) == IF code + 1 \in DOMAIN CodeNames THEN CodeNames[code + 1] ELSE "UNKNOWN"

\* new RpcError(message, toRpcStatusCode(code), rpcTrailers) in onEnd.
WireError(code, meta) == [class |-> "RpcError", code |-> code, meta |-> meta, ref |-> [by |-> "onEnd", n |-> 1]]
\* { code: toRpcStatusCode(code), detail: message }
RpcStatus(code) == [code |-> code, detail |-> "message"]

\* The callbacks of the connection.
HeadersEvent(headers) == [event |-> "headers", code |-> 0, metadata |-> headers, message |-> "none"]
InboundMessage(m) == [event |-> "message", code |-> 0, metadata |-> [k \in {} |-> <<>>], message |-> m]
EndEvent(code, trailers) == [event |-> "end", code |-> code, metadata |-> trailers, message |-> "none"]
EventsOf(kind) == SelectSeq(events, LAMBDA ev : ev.event = kind)

\* Events of the duplex call's RpcOutputStreamController.
Notified(kind, value) == [kind |-> kind, value |-> value]

\* A rejectPending that rejects whatever the state of the deferred.
RejectAlways(d, e) == Rejected(e)

\* Deferred.resolve and Deferred.reject settle a pending deferred; on a
\* settled one they throw and leave it as it is.  Deferred.rejectPending
\* does nothing on a settled one.
DeferredResolve(d, v) == IF d.state = "pending" THEN Fulfilled(v) ELSE d
DeferredReject(d, e) == IF d.state = "pending" THEN Rejected(e) ELSE d
rejectPending(d, e) == IF d.state = "pending" THEN Rejected(e) ELSE d

\* ------------------------------------------------------------------ actions
\* The body of clientStreaming / duplex, entered with options:
\*   const opt = this.mergeOptions(options);
\*   if (i?.length && !options.interceptors) return stackIntercept(kind, this, method, opt);
\*   return this.perform...(method, opt);
\* perform... creates the deferreds and the connection and starts it.
Enter(kind, options) ==
  /\ entries < MaxEntries
  /\ entries' = entries + 1
  /\ rtype' = kind
  /\ passed' = mergeOptions(options)
  /\ IF ShouldStack(mergeOptions(options), options)
     THEN /\ rpc' = "chain"
          /\ chain' = stackIntercept(kind, mergeOptions(options))
          /\ UNCHANGED connections
     ELSE /\ rpc' = "connected"
          /\ chain' = <<>>
          /\ connections' = connections + 1
  /\ UNCHANGED <<codecVars, metaVars, errVars, attempts, fetchCalls, interceptors, hookRuns, events, deferreds, responseStream>>

\* The method is entered from outside with options that carry no
\* interceptors, or from the innermost next of stackIntercept with the options
\* the chain passed down.
Entered(kind) ==
  \/ rpc = "idle" /\ Enter(kind, NoList)
  \/ rpc = "chain" /\ chain = <<>> /\ rtype = kind /\ Enter(kind, passed)

clientStreaming == Entered("clientStreaming")
duplex == Entered("duplex")

\* this.fetchTransport was constructed with the interceptors of this
\* transport, so its mergeOptions appends to the same defaults.
fetchTransportMergeOptions(options) == [given |-> TRUE, list |-> IF options.given THEN DefaultList \o options.list ELSE DefaultList]

\* A unary / serverStreaming that takes the way of clientStreaming / duplex.
ConnectInstead(kind, options) == Enter(kind, options)

\* The body of unary / serverStreaming, entered with options:
\*   return this.fetchTransport[kind](method, input, this.fetchTransport.mergeOptions(options));
ToFetch(kind, options) ==
  /\ entries < MaxEntries
  /\ entries' = entries + 1
  /\ rtype' = kind
  /\ rpc' = "fetch"
  /\ chain' = <<>>
  /\ passed' = fetchTransportMergeOptions(options)
  /\ fetchCalls' = Append(fetchCalls, [kind |-> kind, given |-> options, options |-> fetchTransportMergeOptions(options)])
  /\ UNCHANGED <<codecVars, metaVars, errVars, attempts, interceptors, hookRuns, connections, events, deferreds, responseStream>>

Delegated(kind) ==
  \/ rpc = "idle" /\ ToFetch(kind, NoList)
  \/ rpc = "chain" /\ chain = <<>> /\ rtype = kind /\ ToFetch(kind, passed)

unary == Delegated("unary")
serverStreaming == Delegated("serverStreaming")

\* A service client calls the transport the way generated clients do:
\*   opt = transport.mergeOptions(options); stackIntercept(kind, transport, method, opt)
ServiceClientCall(kind) ==
  /\ rpc = "idle"
  /\ rpc' = "chain"
  /\ rtype' = kind
  /\ passed' = mergeOptions(NoList)
  /\ chain' = stackIntercept(kind, mergeOptions(NoList))
  /\ UNCHANGED <<codecVars, metaVars, errVars, attempts, fetchCalls, interceptors, entries, hookRuns, connections, events, deferreds, responseStream>>

\* The outermost hook that has not run yet runs and calls next with the
\* options it was given.
InterceptorRuns ==
  /\ rpc = "chain"
  /\ chain # <<>>
  /\ hookRuns' = [hookRuns EXCEPT ![Head(chain)] = @ + 1]
  /\ chain' = Tail(chain)
  /\ UNCHANGED <<codecVars, metaVars, errVars, attempts, fetchCalls, interceptors, rpc, rtype, passed, entries, connections, events, deferreds, responseStream>>

\* client.onHeaders: headersDeferred.resolve(fromGrpcMetadata(headers)).
\* The connection reports its headers at most once, before it ends.
onHeaders(headers) ==
  /\ rpc = "connected"
  /\ EventsOf("headers") = <<>>
  /\ events' = Append(events, HeadersEvent(headers))
  /\ deferreds' = [deferreds EXCEPT !["headers"] = DeferredResolve(@, fromGrpcMetadata(headers))]
  /\ attempts' = [attempts EXCEPT !["headers"] = @ + 1]
  /\ UNCHANGED <<codecVars, metaVars, errVars, fetchCalls, interceptors, rpc, rtype, chain, passed, entries, hookRuns, connections, responseStream>>

\* client.onMessage:
\*   performClientStreaming: responseDeferred.resolve(response)
\*   performDuplex:          responseStream.notifyMessage(response)
onMessage(m) ==
  /\ rpc = "connected"
  /\ Len(EventsOf("message")) < MaxMessages
  /\ events' = Append(events, InboundMessage(m))
  /\ IF rtype = "clientStreaming"
     THEN /\ deferreds' = [deferreds EXCEPT !["response"] = DeferredResolve(@, m)]
          /\ attempts' = [attempts EXCEPT !["response"] = @ + 1]
          /\ UNCHANGED responseStream
     ELSE /\ responseStream' = Append(responseStream, Notified("message", m))
          /\ UNCHANGED <<deferreds, attempts>>
  /\ UNCHANGED <<codecVars, metaVars, errVars, fetchCalls, interceptors, rpc, rtype, chain, passed, entries, hookRuns, connections>>

\* client.onEnd, the settlements of the deferreds:
\*   trailersDeferred.resolve(rpcTrailers);
\*   OK:   statusDeferred.resolve({ code, detail })
\*   else: error = new RpcError(...); headersDeferred.rejectPending(error);
\*         responseDeferred.rejectPending(error) (performClientStreaming);
\*         statusDeferred.reject(error)
EndDeferreds(d, kind, code, trailers) ==
  [ch \in Channels |->
     CASE ch = "trailers" -> DeferredResolve(d[ch], fromGrpcMetadata(trailers))
       [] ch = "status" -> IF code = 0 THEN DeferredResolve(d[ch], RpcStatus(toRpcStatusCode(code))) ELSE DeferredReject(d[ch], WireError(toRpcStatusCode(code), fromGrpcMetadata(trailers)))
       [] ch = "headers" -> IF code = 0 THEN d[ch] ELSE rejectPending(d[ch], WireError(toRpcStatusCode(code), fromGrpcMetadata(trailers)))
       [] OTHER -> IF code = 0 \/ kind # "clientStreaming" THEN d[ch] ELSE rejectPending(d[ch], WireError(toRpcStatusCode(code), fromGrpcMetadata(trailers)))]

\* The calls of resolve and reject client.onEnd makes: one on
\* trailersDeferred, one on statusDeferred, and for a code other than OK the
\* reject of rejectPending on a deferred that is still pending.
EndAttempts(a, d, kind, code) ==
  [ch \in Channels |->
     CASE ch \in {"trailers", "status"} -> a[ch] + 1
       [] ch = "headers" -> IF code # 0 /\ d[ch].state = "pending" THEN a[ch] + 1 ELSE a[ch]
       [] OTHER -> IF code # 0 /\ kind = "clientStreaming" /\ d[ch].state = "pending" THEN a[ch] + 1 ELSE a[ch]]

\* client.onEnd of performDuplex, the response stream:
\*   OK: responseStream.notifyComplete(); else: responseStream.notifyError(error)
EndStream(stream, kind, code, trailers) ==
  IF kind # "duplex" THEN stream
  ELSE IF code = 0 THEN Append(stream, Notified("complete", "none"))
  ELSE Append(stream, Notified("error", WireError(toRpcStatusCode(code), fromGrpcMetadata(trailers))))

\* The connection ends, once.
onEnd(code, trailers) ==
  /\ rpc = "connected"
  /\ rpc' = "ended"
  /\ events' = Append(events, EndEvent(code, trailers))
  /\ deferreds' = EndDeferreds(deferreds, rtype, code, trailers)
  /\ attempts' = EndAttempts(attempts, deferreds, rtype, code)
  /\ responseStream' = EndStream(responseStream, rtype, code, trailers)
  /\ UNCHANGED <<codecVars, metaVars, errVars, fetchCalls, interceptors, rtype, chain, passed, entries, hookRuns, connections>>

InitRouter == MetadataIdle /\ ErrorIdle /\ RouterInit(InterceptorLists) /\ CodecIdle

NextRouter ==
  \/ clientStreaming
  \/ duplex
  \/ \E kind \in StreamShapes : ServiceClientCall(kind)
  \/ InterceptorRuns
  \/ \E headers \in {[k \in {} |-> <<>>], [k \in {"k1"} |-> <<"a">>]} : onHeaders(headers)
  \/ \E m \in {"m1"} : onMessage(m)
  \/ \E code \in GrpcCodes, trailers \in GrpcMetadata : onEnd(code, trailers)

SpecRouter == InitRouter /\ [][NextRouter]_vars

\* The four shapes against one transport.  An interceptor of these lists
\* defines every hook or none.
RouteLists == UNION {[1 .. n -> {{}, CallType}] : n \in 0 .. MaxInterceptors}

InitRoute == MetadataIdle /\ ErrorIdle /\ RouterInit(RouteLists) /\ CodecIdle

NextRoute ==
  \/ unary
  \/ serverStreaming
  \/ clientStreaming
  \/ duplex
  \/ \E kind \in CallType : ServiceClientCall(kind)
  \/ InterceptorRuns
  \/ \E m \in {"m1"} : onMessage(m)
  \/ \E code \in {0, 5}, trailers \in {[k \in {} |-> <<>>]} : onEnd(code, trailers)

SpecRoute == InitRoute /\ [][NextRoute]_vars

\* ---------------------------------------------------------- claims, part 3
\* The call has reached the connection.
Connected == rpc \in {"connected", "ended"}

\* C18: for every call of clientStreaming or duplex, entered from outside
\* without an interceptor list or re-entered from the chain with the list,
\* every configured interceptor that defines the hook runs it exactly once
\* and exactly one connection is opened; the chain is not applied twice, the
\* method is entered at most twice, and a call in the chain can always go on.
C18_ChainOnce ==
  /\ connections <= 1
  /\ entries <= 2
  /\ \A i \in DOMAIN interceptors : hookRuns[i] <= 1
  /\ Connected => connections = 1 /\ \A i \in DOMAIN interceptors : hookRuns[i] = IF rtype \in interceptors[i] THEN 1 ELSE 0
  /\ rpc = "chain" => ENABLED (InterceptorRuns \/ clientStreaming \/ duplex)

\* A call entered from outside, re-entered from the chain of two
\* interceptors, with its connection open.
C18_Witness ==
  /\ Connected
  /\ entries = 2
  /\ Len(interceptors) = 2
  /\ \A i \in DOMAIN interceptors : rtype \in interceptors[i] /\ hookRuns[i] = 1
  /\ connections = 1

\* The end event of an ended call, and the error onEnd built from it.
LastEvent == events[Len(events)]
EndError == WireError(toRpcStatusCode(LastEvent.code), fromGrpcMetadata(LastEvent.metadata))
RejectedWith(d, e) == d.state = "rejected" /\ d.value = e
FulfilledWith(d, v) == d.state = "fulfilled" /\ d.value = v

\* C19: when the connection of a clientStreaming or duplex call ends with a
\* code other than OK, status is rejected with one RpcError carrying the
\* code's name and the trailers; headers and (clientStreaming) response are
\* rejected with that same object if they were pending and keep their value
\* if they were settled; the duplex response stream ends with that error
\* after its messages; trailers resolve with the trailing metadata.
C19_EndWithError ==
  rpc = "ended" /\ LastEvent.code # 0 =>
    /\ RejectedWith(deferreds["status"], EndError)
    /\ FulfilledWith(deferreds["trailers"], fromGrpcMetadata(LastEvent.metadata))
    /\ IF EventsOf("headers") = <<>>
       THEN RejectedWith(deferreds["headers"], EndError)
       ELSE FulfilledWith(deferreds["headers"], fromGrpcMetadata(EventsOf("headers")[1].metadata))
    /\ rtype = "clientStreaming" =>
         IF EventsOf("message") = <<>>
         THEN RejectedWith(deferreds["response"], EndError)
         ELSE FulfilledWith(deferreds["response"], EventsOf("message")[1].message)
    /\ rtype = "duplex" =>
         /\ Len(responseStream) = Len(EventsOf("message")) + 1
         /\ responseStream[Len(responseStream)] = Notified("error", EndError)
         /\ \A i \in 1 .. Len(EventsOf("message")) : responseStream[i] = Notified("message", EventsOf("message")[i].message)

\* A client-streaming call that had its headers but no response when the
\* connection ended with NOT_FOUND.
C19_Witness ==
  /\ rpc = "ended" /\ rtype = "clientStreaming"
  /\ LastEvent.code = 5
  /\ EventsOf("headers") # <<>> /\ EventsOf("message") = <<>>
  /\ deferreds["headers"].state = "fulfilled"
  /\ deferreds["response"].state = "rejected" /\ deferreds["status"].state = "rejected"
  /\ deferreds["response"].value.ref = deferreds["status"].value.ref
  /\ deferreds["status"].value.code = "NotFound"
  /\ deferreds["trailers"].state = "fulfilled"

\* C20: once the connection of a client-streaming call has ended, with any
\* code and after any headers and message events, none of the four
\* promises (headers, response, status, trailers) is pending.
C20_AllSettledAtEnd ==
  rpc = "ended" /\ rtype = "clientStreaming" => \A ch \in Channels : deferreds[ch].state # "pending"

\* C21: a unary or server-streaming call is handed to the fetch transport,
\* once per entry of the method, with the options merged by the fetch
\* transport (its default interceptors followed by those handed in), and
\* opens no connection; a client-streaming or duplex call that has left the
\* interceptor chain has opened one connection and is never handed to the
\* fetch transport.
C21_Routing ==
  /\ \A i \in DOMAIN fetchCalls :
       /\ fetchCalls[i].kind \in InputShapes
       /\ fetchCalls[i].options.given
       /\ fetchCalls[i].options.list = DefaultList \o fetchCalls[i].given.list
  /\ rtype \in InputShapes => connections = 0 /\ events = <<>> /\ Len(fetchCalls) = entries /\ rpc \in {"chain", "fetch"}
  /\ rtype \in StreamShapes => fetchCalls = <<>> /\ rpc # "fetch" /\ (Connected <=> connections = 1)
  /\ rpc = "fetch" => Len(fetchCalls) = 1
  /\ rpc = "chain" /\ chain = <<>> => ENABLED (unary \/ serverStreaming \/ clientStreaming \/ duplex)

\* A server-streaming call of a service client that passed two interceptors
\* and was handed to the fetch transport with the list it came with.
C21_Witness ==
  /\ Len(interceptors) = 2 /\ \A i \in DOMAIN interceptors : hookRuns[i] = 1
  /\ rpc = "fetch" /\ rtype = "serverStreaming"
  /\ Len(fetchCalls) = 1 /\ fetchCalls[1].given.given /\ Len(fetchCalls[1].options.list) = 4

\* ================================================= part 4: the error codec
\* Repeated sub-records, stack entries and details per list.
MaxList == 2

\* Strings; "" is the default value of a string field.
Str == {"", "a", "b"}
Lists(S) == UNION {[1 .. n -> S] : n \in 0 .. MaxList}

\* ---------------------------------------------------------- the wire format
\* A message on the wire is the sequence of its fields.  A field carries its
\* number, its wire type and its payload: the text of writer.string, the
\* bytes (a message again) of writer.bytes, the number of a varint.  The
\* numbers written here are below 2^31, where int32 and int64 write and
\* read them unchanged.
Field(no, wt, val) == [no |-> no, wt |-> wt, val |-> val]

\* A writer that writes the string whatever it is.
AlwaysString(no, s) == <<Field(no, "LengthDelimited", s)>>

\* if (s) writer.tag(no, WireType.LengthDelimited).string(s)
OptString(no, s) == IF s = "" THEN <<>> ELSE <<Field(no, "LengthDelimited", s)>>

\* for (const x of list) writer.tag(no, WireType.LengthDelimited).bytes(enc(x))
Repeated(no, list, enc(_)) == [i \in DOMAIN list |-> Field(no, "LengthDelimited", enc(list[i]))]

\* Object.entries of a Record<string, string>, in some one order.
RECURSIVE Entries(_)
Entries(metadata) ==
  IF DOMAIN metadata = {} THEN <<>>
  ELSE LET k == CHOOSE x \in DOMAIN metadata : TRUE
       IN <<[key |-> k, value |-> metadata[k]]>> \o Entries([x \in DOMAIN metadata \ {k} |-> metadata[x]])

\* The read loop `while (reader.pos < data.length)` of every parser:
\*   case no: if (wireType === wt) x = reader...(); else reader.skip(wireType);
\* assigns a plain variable once per matching field, so the last one stays,
\* and skips every field of another number or another wire type.
Matching(data, no, wt) == SelectSeq(data, LAMBDA f : f.no = no /\ f.wt = wt)
ReadLast(data, no, wt, default) == IF Matching(data, no, wt) = <<>> THEN default ELSE Matching(data, no, wt)[Len(Matching(data, no, wt))].val
\*   case no: if (wireType === wt) list.push(parse(reader.bytes()))
ReadEach(data, no, wt, parse(_)) == [i \in DOMAIN Matching(data, no, wt) |-> parse(Matching(data, no, wt)[i].val)]

\* ----------------------------------------------------------------- encode
TYPE_URLS ==
  [localizedMessage |-> "type.googleapis.com/google.rpc.LocalizedMessage",
   badRequest |-> "type.googleapis.com/google.rpc.BadRequest",
   debugInfo |-> "type.googleapis.com/google.rpc.DebugInfo",
   errorInfo |-> "type.googleapis.com/google.rpc.ErrorInfo",
   retryInfo |-> "type.googleapis.com/google.rpc.RetryInfo",
   quotaFailure |-> "type.googleapis.com/google.rpc.QuotaFailure",
   preconditionFailure |-> "type.googleapis.com/google.rpc.PreconditionFailure",
   requestInfo |-> "type.googleapis.com/google.rpc.RequestInfo",
   resourceInfo |-> "type.googleapis.com/google.rpc.ResourceInfo",
   help |-> "type.googleapis.com/google.rpc.Help"]
KnownTypes == DOMAIN TYPE_URLS
KnownUrls == {TYPE_URLS[t] : t \in KnownTypes}

encodeLocalizedMessage(detail) == OptString(1, detail.locale) \o OptString(2, detail.message)

encodeFieldViolation(violation) == OptString(1, violation.field) \o OptString(2, violation.description)
encodeBadRequest(detail) == Repeated(1, detail.fieldViolations, encodeFieldViolation)

encodeStackEntry(entry) == entry
encodeDebugInfo(detail) == Repeated(1, detail.stackEntries, encodeStackEntry) \o OptString(2, detail.detail)

\* The map entry writes key and value whatever they are.
encodeMapEntry(entry) == <<Field(1, "LengthDelimited", entry.key), Field(2, "LengthDelimited", entry.value)>>
encodeErrorInfo(detail) == OptString(1, detail.reason) \o OptString(2, detail.domain) \o Repeated(3, Entries(detail.metadata), encodeMapEntry)

\* An encoder that leaves out a delay of 0 only.
encodeRetryInfoNonZero(detail) == IF detail.retryDelaySeconds # 0 THEN <<Field(1, "LengthDelimited", <<Field(1, "Varint", detail.retryDelaySeconds)>>)>> ELSE <<>>

\* if (detail.retryDelaySeconds > 0): a Duration with its seconds.
encodeRetryInfo(detail) == IF detail.retryDelaySeconds > 0 THEN <<Field(1, "LengthDelimited", <<Field(1, "Varint", detail.retryDelaySeconds)>>)>> ELSE <<>>

encodeQuotaViolation(violation) == OptString(1, violation.subject) \o OptString(2, violation.description)
encodeQuotaFailure(detail) == Repeated(1, detail.violations, encodeQuotaViolation)

encodePreconditionViolation(violation) == OptString(1, violation.type) \o OptString(2, violation.subject) \o OptString(3, violation.description)
encodePreconditionFailure(detail) == Repeated(1, detail.violations, encodePreconditionViolation)

encodeRequestInfo(detail) == OptString(1, detail.requestId) \o OptString(2, detail.servingData)

encodeResourceInfo(detail) == OptString(1, detail.resourceType) \o OptString(2, detail.resourceName) \o OptString(3, detail.owner) \o OptString(4, detail.description)

encodeHelpLink(link) == OptString(1, link.description) \o OptString(2, link.url)
encodeHelp(detail) == Repeated(1, detail.links, encodeHelpLink)

\* google.protobuf.Any
AnyMessage(typeUrl, value) == [typeUrl |-> typeUrl, value |-> value]

encodeErrorDetail(detail) ==
  CASE detail.type = "localizedMessage" -> AnyMessage(TYPE_URLS.localizedMessage, encodeLocalizedMessage(detail))
    [] detail.type = "badRequest" -> AnyMessage(TYPE_URLS.badRequest, encodeBadRequest(detail))
    [] detail.type = "debugInfo" -> AnyMessage(TYPE_URLS.debugInfo, encodeDebugInfo(detail))
    [] detail.type = "errorInfo" -> AnyMessage(TYPE_URLS.errorInfo, encodeErrorInfo(detail))
    [] detail.type = "retryInfo" -> AnyMessage(TYPE_URLS.retryInfo, encodeRetryInfo(detail))
    [] detail.type = "quotaFailure" -> AnyMessage(TYPE_URLS.quotaFailure, encodeQuotaFailure(detail))
    [] detail.type = "preconditionFailure" -> AnyMessage(TYPE_URLS.preconditionFailure, encodePreconditionFailure(detail))
    [] detail.type = "requestInfo" -> AnyMessage(TYPE_URLS.requestInfo, encodeRequestInfo(detail))
    [] detail.type = "resourceInfo" -> AnyMessage(TYPE_URLS.resourceInfo, encodeResourceInfo(detail))
    [] detail.type = "help" -> AnyMessage(TYPE_URLS.help, encodeHelp(detail))
    [] detail.type = "unknown" -> AnyMessage(detail.typeUrl, detail.value)

\* encodeAny: if (any.typeUrl) ...; if (any.value.length > 0) ...
encodeAny(any) == OptString(1, any.typeUrl) \o (IF Len(any.value) > 0 THEN <<Field(2, "LengthDelimited", any.value)>> ELSE <<>>)

\* encodeStatus: if (status.code !== 0) ...; if (status.message) ...; every detail.
encodeStatus(status) ==
  (IF status.code # 0 THEN <<Field(1, "Varint", status.code)>> ELSE <<>>)
    \o OptString(2, status.message)
    \o Repeated(3, status.details, encodeAny)

\* A table that encodes aborted as CANCELLED.
AbortedAsCancelled ==
  [AbortedError |-> 1, AlreadyExistsError |-> 6, DeadlineExceededError |-> 4, NotFoundError |-> 5,
   PermissionDeniedError |-> 7, RaceUpdateError |-> 10, ValidationError |-> 3, UnavailableError |-> 14,
   UnauthenticatedError |-> 16, UnknownError |-> 2, GrpcError |-> 2]

ERROR_TO_GRPC_CODE ==
  [AbortedError |-> 10, AlreadyExistsError |-> 6, DeadlineExceededError |-> 4, NotFoundError |-> 5,
   PermissionDeniedError |-> 7, RaceUpdateError |-> 10, ValidationError |-> 3, UnavailableError |-> 14,
   UnauthenticatedError |-> 16, UnknownError |-> 2, GrpcError |-> 2]

\* encodeGrpcStatus: ERROR_TO_GRPC_CODE[error.constructor.name] ?? 2
encodeGrpcStatus(error) ==
  encodeStatus([code |-> IF error.name \in DOMAIN ERROR_TO_GRPC_CODE THEN ERROR_TO_GRPC_CODE[error.name] ELSE 2,
                message |-> error.message,
                details |-> [i \in DOMAIN error.details |-> encodeErrorDetail(error.details[i])]])

\* ----------------------------------------------------------------- decode
parseLocalizedMessage(data) == [type |-> "localizedMessage", locale |-> ReadLast(data, 1, "LengthDelimited", ""), message |-> ReadLast(data, 2, "LengthDelimited", "")]

parseFieldViolation(data) == [field |-> ReadLast(data, 1, "LengthDelimited", ""), description |-> ReadLast(data, 2, "LengthDelimited", "")]
parseBadRequest(data) == [type |-> "badRequest", fieldViolations |-> ReadEach(data, 1, "LengthDelimited", parseFieldViolation)]

parseStackEntry(text) == text
parseDebugInfo(data) == [type |-> "debugInfo", stackEntries |-> ReadEach(data, 1, "LengthDelimited", parseStackEntry), detail |-> ReadLast(data, 2, "LengthDelimited", "")]

parseMapEntry(data) == [key |-> ReadLast(data, 1, "LengthDelimited", ""), value |-> ReadLast(data, 2, "LengthDelimited", "")]
\* metadata[mapEntry.key] = mapEntry.value, entry after entry
Assigned(pairs) ==
  [k \in {pairs[i].key : i \in DOMAIN pairs} |->
     pairs[CHOOSE i \in DOMAIN pairs : pairs[i].key = k /\ \A j \in DOMAIN pairs : j > i => pairs[j].key # k].value]
parseErrorInfo(data) ==
  [type |-> "errorInfo", reason |-> ReadLast(data, 1, "LengthDelimited", ""), domain |-> ReadLast(data, 2, "LengthDelimited", ""),
   metadata |-> Assigned(ReadEach(data, 3, "LengthDelimited", parseMapEntry))]

RECURSIVE Concat(_)
Concat(seqs) == IF Len(seqs) = 0 THEN <<>> ELSE Head(seqs) \o Concat(Tail(seqs))
\* The seconds of every Duration under field 1 are assigned in turn.
DurationSeconds(duration) == Matching(duration, 1, "Varint")
parseRetryInfo(data) ==
  LET seconds == Concat(ReadEach(data, 1, "LengthDelimited", DurationSeconds))
  IN [type |-> "retryInfo", retryDelaySeconds |-> IF Len(seconds) = 0 THEN 0 ELSE seconds[Len(seconds)].val]

parseQuotaViolation(data) == [subject |-> ReadLast(data, 1, "LengthDelimited", ""), description |-> ReadLast(data, 2, "LengthDelimited", "")]
parseQuotaFailure(data) == [type |-> "quotaFailure", violations |-> ReadEach(data, 1, "LengthDelimited", parseQuotaViolation)]

parsePreconditionViolation(data) == [type |-> ReadLast(data, 1, "LengthDelimited", ""), subject |-> ReadLast(data, 2, "LengthDelimited", ""), description |-> ReadLast(data, 3, "LengthDelimited", "")]
parsePreconditionFailure(data) == [type |-> "preconditionFailure", violations |-> ReadEach(data, 1, "LengthDelimited", parsePreconditionViolation)]

parseRequestInfo(data) == [type |-> "requestInfo", requestId |-> ReadLast(data, 1, "LengthDelimited", ""), servingData |-> ReadLast(data, 2, "LengthDelimited", "")]

parseResourceInfo(data) ==
  [type |-> "resourceInfo", resourceType |-> ReadLast(data, 1, "LengthDelimited", ""), resourceName |-> ReadLast(data, 2, "LengthDelimited", ""),
   owner |-> ReadLast(data, 3, "LengthDelimited", ""), description |-> ReadLast(data, 4, "LengthDelimited", "")]

parseHelpLink(data) == [description |-> ReadLast(data, 1, "LengthDelimited", ""), url |-> ReadLast(data, 2, "LengthDelimited", "")]
parseHelp(data) == [type |-> "help", links |-> ReadEach(data, 1, "LengthDelimited", parseHelpLink)]

\* A default arm that gives up the bytes.
ParseDropsUnknown(any) == [type |-> "unknown", typeUrl |-> any.typeUrl, value |-> <<>>]

parseErrorDetail(any) ==
  CASE any.typeUrl = TYPE_URLS.localizedMessage -> parseLocalizedMessage(any.value)
    [] any.typeUrl = TYPE_URLS.badRequest -> parseBadRequest(any.value)
    [] any.typeUrl = TYPE_URLS.debugInfo -> parseDebugInfo(any.value)
    [] any.typeUrl = TYPE_URLS.errorInfo -> parseErrorInfo(any.value)
    [] any.typeUrl = TYPE_URLS.retryInfo -> parseRetryInfo(any.value)
    [] any.typeUrl = TYPE_URLS.quotaFailure -> parseQuotaFailure(any.value)
    [] any.typeUrl = TYPE_URLS.preconditionFailure -> parsePreconditionFailure(any.value)
    [] any.typeUrl = TYPE_URLS.requestInfo -> parseRequestInfo(any.value)
    [] any.typeUrl = TYPE_URLS.resourceInfo -> parseResourceInfo(any.value)
    [] any.typeUrl = TYPE_URLS.help -> parseHelp(any.value)
    [] OTHER -> [type |-> "unknown", typeUrl |-> any.typeUrl, value |-> any.value]

parseAny(data) == AnyMessage(ReadLast(data, 1, "LengthDelimited", ""), ReadLast(data, 2, "LengthDelimited", <<>>))

parseStatus(data) == [code |-> ReadLast(data, 1, "Varint", 0), message |-> ReadLast(data, 2, "LengthDelimited", ""), details |-> ReadEach(data, 3, "LengthDelimited", parseAny)]

\* string | undefined
Undefined == [defined |-> FALSE, value |-> ""]
Defined(v) == [defined |-> TRUE, value |-> v]

\* A find that takes the last localizedMessage detail.
FindLast(details) ==
  LET found == SelectSeq(details, LAMBDA d : d.type = "localizedMessage")
  IN IF Len(found) = 0 THEN Undefined ELSE Defined(found[Len(found)].message)

\* details.find((d) => d.type === 'localizedMessage')?.message
localizedMessage(details) ==
  LET found == SelectSeq(details, LAMBDA d : d.type = "localizedMessage")
  IN IF Len(found) = 0 THEN Undefined ELSE Defined(found[1].message)

\* decodeGrpcStatus of codec/decode.ts, in full.
DecodedGrpcStatus(data) ==
  [code |-> parseStatus(data).code,
   message |-> parseStatus(data).message,
   localizedMessage |-> localizedMessage([i \in DOMAIN parseStatus(data).details |-> parseErrorDetail(parseStatus(data).details[i])]),
   details |-> [i \in DOMAIN parseStatus(data).details |-> parseErrorDetail(parseStatus(data).details[i])]]

\* ------------------------------------------------------- the error classes
\* The subclasses of GrpcError and the message each gives to super.
SubclassMessage ==
  [AbortedError |-> "Aborted by client", AlreadyExistsError |-> "Already exists",
   DeadlineExceededError |-> "Request took too long to respond", NotFoundError |-> "Not found",
   PermissionDeniedError |-> "Permission denied",
   RaceUpdateError |-> "Attempt to update after the item is already updated elsewhere",
   ValidationError |-> "Validation error", UnavailableError |-> "Cannot connect to the server",
   UnauthenticatedError |-> "Unauthenticated", UnknownError |-> "Unknown error"]
Subclasses == DOMAIN SubclassMessage

\* GrpcErrorOptions: details and cause, each optional; no options at all
\* is the same as neither.
GrpcErrorOptions(details, cause) == [details |-> details, cause |-> cause]
NoDetails == [given |-> FALSE, list |-> <<>>]
GivenDetails(list) == [given |-> TRUE, list |-> list]

\* A constructor that drops the details.
ConstructWithoutDetails(name, message, options) == [name |-> name, message |-> message, details |-> <<>>, cause |-> options.cause, localizedMessage |-> Undefined]

\* constructor(message, options) of GrpcError, for an object of class name:
\*   super(message, { cause: options?.cause }); this.name = this.constructor.name;
\*   this.details = options?.details ?? [];
\* with the value of the getter localizedMessage.
GrpcErrorConstructor(name, message, options) ==
  [name |-> name, message |-> message,
   details |-> IF options.details.given THEN options.details.list ELSE <<>>,
   cause |-> options.cause,
   localizedMessage |-> localizedMessage(IF options.details.given THEN options.details.list ELSE <<>>)]

\* new GrpcError(message, options) and new <Subclass>(options)
New(class, message, options) == GrpcErrorConstructor(class, IF class \in Subclasses THEN SubclassMessage[class] ELSE message, options)

\* ------------------------------------------------------------- the values
\* The detail records of each shape.  Every string field takes the default
\* "" too, and the retry delay a negative number of seconds.
RetryDelays == {-1, 0, 1, 30}
MetaKeys == {"", "k1"}
Metadatas == UNION {[K -> Str] : K \in SUBSET MetaKeys}
UnknownUrls == {"", "type.example.com/custom.Detail"}
OpaqueBytes == {<<>>, <<Field(7, "Varint", 1)>>, <<Field(8, "LengthDelimited", "a")>>}

DetailShapes ==
  <<[type : {"localizedMessage"}, locale : Str, message : Str],
    [type : {"badRequest"}, fieldViolations : Lists([field : Str, description : Str])],
    [type : {"debugInfo"}, stackEntries : Lists(Str), detail : Str],
    [type : {"errorInfo"}, reason : Str, domain : Str, metadata : Metadatas],
    [type : {"retryInfo"}, retryDelaySeconds : RetryDelays],
    [type : {"quotaFailure"}, violations : Lists([subject : Str, description : Str])],
    [type : {"preconditionFailure"}, violations : Lists([type : Str, subject : Str, description : Str])],
    [type : {"requestInfo"}, requestId : Str, servingData : Str],
    [type : {"resourceInfo"}, resourceType : Str, resourceName : Str, owner : Str, description : Str],
    [type : {"help"}, links : Lists([description : Str, url : Str])],
    [type : {"unknown"}, typeUrl : UnknownUrls, value : OpaqueBytes]>>

\* Messages with absent fields: nothing at all, a field of another wire
\* type, a field of an unknown number.
SparseBytes == {<<>>, <<Field(1, "Varint", 5)>>, <<Field(9, "LengthDelimited", "a")>>, <<Field(1, "Varint", 5), Field(9, "LengthDelimited", "a")>>}
Anys == [typeUrl : KnownUrls \cup UnknownUrls, value : SparseBytes]

\* The details typed errors are constructed with, one list position each.
SampleDetails ==
  <<[type |-> "localizedMessage", locale |-> "a", message |-> "a"],
    [type |-> "localizedMessage", locale |-> "", message |-> "b"],
    [type |-> "badRequest", fieldViolations |-> <<[field |-> "a", description |-> "b"], [field |-> "b", description |-> ""]>>],
    [type |-> "errorInfo", reason |-> "a", domain |-> "b", metadata |-> [k \in {"k1"} |-> "a"]],
    [type |-> "retryInfo", retryDelaySeconds |-> 30],
    [type |-> "retryInfo", retryDelaySeconds |-> -1],
    [type |-> "help", links |-> <<[description |-> "a", url |-> "b"]>>],
    [type |-> "unknown", typeUrl |-> "type.example.com/custom.Detail", value |-> <<Field(7, "Varint", 1)>>]>>
DetailLists == {[i \in DOMAIN l |-> SampleDetails[l[i]]] : l \in Lists(DOMAIN SampleDetails)}

\* new <class>(options); only GrpcError and a subclass of the caller take a message.
Constructions ==
  [class : Subclasses, message : {""}, options : [details : {NoDetails} \cup {GivenDetails(l) : l \in DetailLists}, cause : {"undefined", "cause"}]]
    \cup [class : {"GrpcError", "CustomError"}, message : {"", "custom"}, options : [details : {NoDetails, GivenDetails(<<SampleDetails[2], SampleDetails[5]>>)}, cause : {"undefined"}]]

\* google.rpc.Status values for encodeStatus, and bytes for decodeGrpcStatus.
SampleAnys == {AnyMessage("", <<>>), AnyMessage(TYPE_URLS.help, <<>>), AnyMessage("type.example.com/custom.Detail", <<Field(7, "Varint", 1)>>)}
Statuses == [code : {0, 5}, message : Str, details : Lists(SampleAnys)]
StatusBytes ==
  {<<>>, <<Field(1, "LengthDelimited", "a")>>, <<Field(2, "Varint", 3)>>, <<Field(3, "LengthDelimited", <<>>)>>,
   <<Field(9, "Varint", 1), Field(3, "LengthDelimited", encodeAny(AnyMessage(TYPE_URLS.localizedMessage, <<>>)))>>}

\* ---------------------------------------------------------------- actions
CodecInit(ops) ==
  /\ codecOp \in ops
  /\ CASE codecOp = "detail" -> \E i \in DOMAIN DetailShapes : \E d \in DetailShapes[i] : codecVals = <<d>>
       [] codecOp = "any" -> \E a \in Anys : codecVals = <<a>>
       [] codecOp = "error" -> \E c \in Constructions : codecVals = <<c>>
       [] codecOp = "status" -> \E st \in Statuses : codecVals = <<st>>
       [] codecOp = "bytes" -> \E b \in StatusBytes : codecVals = <<b>>

\* The function is applied to the value the step before left.
Apply(op, step, result) ==
  /\ codecOp = op
  /\ Len(codecVals) = step
  /\ codecVals' = Append(codecVals, result)
  /\ UNCHANGED <<metaVars, errVars, routerVars, codecOp>>

EncodeErrorDetail ==
  \/ Apply("detail", 1, encodeErrorDetail(codecVals[1]))
  \/ Apply("any", 2, encodeErrorDetail(codecVals[2]))

ParseErrorDetail ==
  \/ Apply("detail", 2, parseErrorDetail(codecVals[2]))
  \/ Apply("any", 1, parseErrorDetail(codecVals[1]))

Construct == Apply("error", 1, New(codecVals[1].class, codecVals[1].message, codecVals[1].options))

EncodeGrpcStatus == Apply("error", 2, encodeGrpcStatus(codecVals[2]))

DecodeGrpcStatus ==
  \/ Apply("error", 3, DecodedGrpcStatus(codecVals[3]))
  \/ Apply("bytes", 1, DecodedGrpcStatus(codecVals[1]))

EncodeStatus == Apply("status", 1, encodeStatus(codecVals[1]))

ParseStatus == Apply("status", 2, parseStatus(codecVals[2]))

InitCodec == MetadataIdle /\ ErrorIdle /\ RouterIdle /\ CodecInit({"detail", "any", "error", "status", "bytes"})

NextCodec ==
  \/ EncodeErrorDetail
  \/ ParseErrorDetail
  \/ Construct
  \/ EncodeGrpcStatus
  \/ DecodeGrpcStatus
  \/ EncodeStatus
  \/ ParseStatus

SpecCodec == InitCodec /\ [][NextCodec]_vars

\* ---------------------------------------------------------- claims, part 4
\* The steps of a value: what was given, and what each function made of it.
Given == codecVals[1]
Done(op, steps) == codecOp = op /\ Len(codecVals) > steps

\* The fields that hold a string, and a record none of whose strings is "".
StringFields == {"locale", "message", "detail", "reason", "domain", "requestId", "servingData", "resourceType", "resourceName", "owner", "description", "field", "subject", "url", "type", "typeUrl"}
NoEmptyString(r) == \A f \in DOMAIN r : f \in StringFields => r[f] # ""

\* A detail record all of whose fields differ from their defaults: no empty
\* string, no empty list, no empty map, no zero.
NonDefault(d) ==
  /\ NoEmptyString(d)
  /\ d.type = "badRequest" => Len(d.fieldViolations) > 0 /\ \A i \in DOMAIN d.fieldViolations : NoEmptyString(d.fieldViolations[i])
  /\ d.type = "debugInfo" => Len(d.stackEntries) > 0 /\ \A i \in DOMAIN d.stackEntries : d.stackEntries[i] # ""
  /\ d.type = "errorInfo" => DOMAIN d.metadata # {} /\ \A k \in DOMAIN d.metadata : k # "" /\ d.metadata[k] # ""
  /\ d.type = "retryInfo" => d.retryDelaySeconds # 0
  /\ d.type \in {"quotaFailure", "preconditionFailure"} => Len(d.violations) > 0 /\ \A i \in DOMAIN d.violations : NoEmptyString(d.violations[i])
  /\ d.type = "help" => Len(d.links) > 0 /\ \A i \in DOMAIN d.links : NoEmptyString(d.links[i])
  /\ d.type = "unknown" => Len(d.value) > 0

\* C22: for every record r of one of the ten known detail shapes whose
\* field values all differ from the defaults, parseErrorDetail applied to
\* encodeErrorDetail(r) yields a record equal to r.
C22_DetailRoundTrip ==
  Done("detail", 2) /\ Given.type \in KnownTypes /\ NonDefault(Given) => codecVals[3] = Given

\* The wire status code of each kind, by its class.
CodeOfKind ==
  [AlreadyExistsError |-> 6, DeadlineExceededError |-> 4, NotFoundError |-> 5, PermissionDeniedError |-> 7,
   ValidationError |-> 3, UnavailableError |-> 14, UnauthenticatedError |-> 16, UnknownError |-> 2,
   AbortedError |-> 10, RaceUpdateError |-> 10, GrpcError |-> 2]

\* C23: for every typed error e, decodeGrpcStatus(encodeGrpcStatus(e)) has
\* the wire code of e's kind, the message of e, and as many details as e,
\* the i-th with the type tag of e.details[i] and, where the field values of
\* e.details[i] differ from the defaults, equal to it.
C23_StatusRoundTrip ==
  Done("error", 3) /\ codecVals[2].name \in DOMAIN CodeOfKind =>
    /\ codecVals[4].code = CodeOfKind[codecVals[2].name]
    /\ codecVals[4].message = codecVals[2].message
    /\ Len(codecVals[4].details) = Len(codecVals[2].details)
    /\ \A i \in DOMAIN codecVals[2].details :
         /\ codecVals[4].details[i].type = codecVals[2].details[i].type
         /\ NonDefault(codecVals[2].details[i]) => codecVals[4].details[i] = codecVals[2].details[i]

\* C24: parseErrorDetail applied to an Any whose type URL is none of the ten
\* yields the unknown detail holding that type URL and those bytes, and
\* encodeErrorDetail of that detail yields the Any again.
C24_UnknownKept ==
  /\ Done("any", 1) /\ Given.typeUrl \notin KnownUrls => codecVals[2] = [type |-> "unknown", typeUrl |-> Given.typeUrl, value |-> Given.value]
  /\ Done("any", 2) /\ Given.typeUrl \notin KnownUrls => codecVals[3] = Given

\* An Any of a custom type URL with two fields, parsed and encoded again.
C24_Witness ==
  /\ Done("any", 2)
  /\ Given.typeUrl = "type.example.com/custom.Detail" /\ Len(Given.value) = 2
  /\ codecVals[2].type = "unknown"

\* The fields of each shape that hold one string, the shapes made of
\* repeated sub-records, and the record of each shape a message without
\* fields stands for.
SingularStrings ==
  [localizedMessage |-> {1, 2}, badRequest |-> {}, debugInfo |-> {2}, errorInfo |-> {1, 2}, retryInfo |-> {},
   quotaFailure |-> {}, preconditionFailure |-> {}, requestInfo |-> {1, 2}, resourceInfo |-> {1, 2, 3, 4}, help |-> {}]
SubRecordShapes == {"badRequest", "quotaFailure", "preconditionFailure", "help"}
ZeroDetail ==
  [localizedMessage |-> [type |-> "localizedMessage", locale |-> "", message |-> ""],
   badRequest |-> [type |-> "badRequest", fieldViolations |-> <<>>],
   debugInfo |-> [type |-> "debugInfo", stackEntries |-> <<>>, detail |-> ""],
   errorInfo |-> [type |-> "errorInfo", reason |-> "", domain |-> "", metadata |-> [k \in {} |-> ""]],
   retryInfo |-> [type |-> "retryInfo", retryDelaySeconds |-> 0],
   quotaFailure |-> [type |-> "quotaFailure", violations |-> <<>>],
   preconditionFailure |-> [type |-> "preconditionFailure", violations |-> <<>>],
   requestInfo |-> [type |-> "requestInfo", requestId |-> "", servingData |-> ""],
   resourceInfo |-> [type |-> "resourceInfo", resourceType |-> "", resourceName |-> "", owner |-> "", description |-> ""],
   help |-> [type |-> "help", links |-> <<>>]]
TypeOfUrl(url) == CHOOSE t \in KnownTypes : TYPE_URLS[t] = url
Present(data, no) == \E i \in DOMAIN data : data[i].no = no

C26_KindToCode ==
  Done("error", 2) /\ codecVals[2].name \in DOMAIN CodeOfKind =>
    /\ Len(Matching(codecVals[3], 1, "Varint")) = 1
    /\ Matching(codecVals[3], 1, "Varint")[1].val = CodeOfKind[codecVals[2].name]

\* A raceUpdate error encoded with code 10.
C26_Witness ==
  /\ Done("error", 2)
  /\ codecVals[2].name = "RaceUpdateError"
  /\ codecVals[3][1] = Field(1, "Varint", 10)

\* The fixed message of each kind, by its class.
FixedMessage ==
  [AbortedError |-> "Aborted by client", AlreadyExistsError |-> "Already exists",
   DeadlineExceededError |-> "Request took too long to respond", NotFoundError |-> "Not found",
   PermissionDeniedError |-> "Permission denied",
   RaceUpdateError |-> "Attempt to update after the item is already updated elsewhere",
   ValidationError |-> "Validation error", UnavailableError |-> "Cannot connect to the server",
   UnauthenticatedError |-> "Unauthenticated", UnknownError |-> "Unknown error"]

\* C27: an error of any of the ten kinds, constructed with any options, has
\* the fixed message of its kind, its class name as name, the details list
\* of the options (the empty list when they give none) and the cause of the
\* options.
C27_Taxonomy ==
  Done("error", 1) /\ Given.class \in DOMAIN FixedMessage =>
    /\ codecVals[2].message = FixedMessage[Given.class]
    /\ codecVals[2].name = Given.class
    /\ codecVals[2].details = (IF Given.options.details.given THEN Given.options.details.list ELSE <<>>)
    /\ codecVals[2].cause = Given.options.cause

\* A notFound error constructed with two details and a cause.
C27_Witness ==
  /\ Done("error", 1)
  /\ Given.class = "NotFoundError" /\ Given.options.cause = "cause"
  /\ Given.options.details.given /\ Len(Given.options.details.list) = 2
  /\ codecVals[2].message = "Not found" /\ Len(codecVals[2].details) = 2

\* The message of the first localizedMessage detail of a list.
LocalizedAt(details, i) == details[i].type = "localizedMessage" /\ \A j \in 1 .. i - 1 : details[j].type # "localizedMessage"
FirstLocalized(details) ==
  IF \E i \in DOMAIN details : LocalizedAt(details, i)
  THEN Defined(details[CHOOSE i \in DOMAIN details : LocalizedAt(details, i)].message)
  ELSE Undefined

FailedOnTheWire == InnerFailures # {} /\ \A e \in InnerFailures : e.class = "RpcError"

\* C29: for a call of any shape that fails with a wire error, onError is
\* invoked once and no more, however many of the promises (headers,
\* response, status, trailers) and the response stream fail; a unary call
\* whose catch block has run has had its one invocation.
C29_OnErrorOnce ==
  onError /\ FailedOnTheWire =>
    /\ Len(onErrorLog) <= 1
    /\ UnaryFailed => Len(onErrorLog) = 1

\* The detail list the status-details header of a wire error decodes to.
DecodedDetails(header) == IF parseRichErrorDetails(header).threw THEN <<>> ELSE parseRichErrorDetails(header).value

\* C30: every typed error mapRpcError makes of a wire error has the wire
\* error as its cause and the decoded detail list as its details, also
\* when the abort signal makes it an AbortedError.
C30_CauseAndDetails ==
  \A i \in WireMappings : ~mapLog[i].result.threw =>
    /\ mapLog[i].result.error.cause = mapLog[i].e.ref
    /\ mapLog[i].result.error.details = DecodedDetails(mapLog[i].e.header)

\* ------------------------------------------------ claims, part 3, continued
\* C31: under any sequence of connection events of a client-streaming or
\* duplex call (headers, inbound messages, end), resolve or reject is called
\* at most once on each of the call's deferreds; a second inbound message
\* of a client-streaming call calls no second resolve on responseDeferred.
C31_SettleOnce == \A ch \in Channels : attempts[ch] <= 1

StreamConfigs == {[metadata |-> [kind |-> "static", value |-> [k \in {"k1"} |-> "provider"]], callTypes |-> NoCallTypes]}

InitStreams == MetadataInit(StreamConfigs) /\ ErrorInit({"atob"}, {FALSE}, {{PlainError}}) /\ RouterInit({<<{"duplex"}>>}) /\ CodecIdle

NextStreams ==
  \/ interceptServerStreaming(1, LifeArgs, LifeResults)
  \/ interceptDuplex(1, LifeArgs, LifeResults)
  \/ InputResolved(1)
  \/ StreamResolved(1)
  \/ InnerEmits(1)
  \/ errorInterceptServerStreaming
  \/ errorInterceptDuplex
  \/ ErrInnerEmitsOf(Msgs)
  \/ duplex
  \/ InterceptorRuns
  \/ \E m \in Msgs : onMessage(m)
  \/ \E code \in {0, 5} : onEnd(code, [k \in {} |-> <<>>])

SpecStreams == InitStreams /\ [][NextStreams]_vars

\* The messages of a stream, in the order of delivery.
Delivered(s) == [i \in 1 .. Len(SelectSeq(s, LAMBDA ev : ev.message # "none")) |-> SelectSeq(s, LAMBDA ev : ev.message # "none")[i].message]
NotifiedMessages(s) == [i \in 1 .. Len(SelectSeq(s, LAMBDA n : n.kind = "message")) |-> SelectSeq(s, LAMBDA n : n.kind = "message")[i].value]
InboundMessages == [i \in 1 .. Len(EventsOf("message")) |-> EventsOf("message")[i].message]

\* C33: the stream exposed to the caller (by the metadata interceptor, by
\* the error interceptor and by the router's duplex call) holds the inner
\* stream's messages in arrival order, and only its last event may be a
\* terminal event (error or complete): at most one terminal event, and no
\* message after it.
C33_StreamProxy ==
  /\ \A c \in Calls :
       /\ Delivered(outputStream[c]) = Delivered(responses[c])
       /\ \A i \in 1 .. Len(outputStream[c]) - 1 : outputStream[c][i].error = "none" /\ ~outputStream[c][i].done
  /\ Delivered(eoutputStream) = Delivered(eresponses)
  /\ \A i \in 1 .. Len(eoutputStream) - 1 : eoutputStream[i].error = NoError /\ ~eoutputStream[i].done
  /\ rtype = "duplex" => NotifiedMessages(responseStream) = InboundMessages
  /\ \A i \in 1 .. Len(responseStream) - 1 : responseStream[i].kind = "message"

\* Each of the three streams has delivered two different messages and then
\* its terminal event.
C33_Witness ==
  /\ Delivered(outputStream[1]) = <<"m2", "m1">>
  /\ Len(outputStream[1]) = 3 /\ outputStream[1][3] = ErrorEvent(InnerError)
  /\ Delivered(eoutputStream) = <<"m1", "m2">>
  /\ Len(eoutputStream) = 3 /\ eoutputStream[3].error # NoError
  /\ NotifiedMessages(responseStream) = <<"m1", "m2">>
  /\ Len(responseStream) = 3 /\ responseStream[3].kind = "complete"

\* ------------------------------------------------ concurrent request streams
\* Two client-streaming or duplex calls in flight through one interceptor
\* instance: the providers resolve in either order and the caller's sends
\* and completes on the two proxies interleave.
NextConcurrent ==
  \E c \in Calls :
    \/ interceptClientStreaming(c, ManyArgs, LifeResults)
    \/ interceptDuplex(c, ManyArgs, LifeResults)
    \/ ProviderSettles(c, LifeResults)
    \/ StreamResolved(c)
    \/ \E m \in Msgs : ProxySend(c, m)
    \/ ProxyComplete(c)

SpecConcurrent == InitMany /\ [][NextConcurrent]_vars

\* How often an operation occurs in a log.
Count(log, o) == Len(SelectSeq(log, LAMBDA x : x = o))
RequestOps == {SendOp(m) : m \in Msgs} \cup {CompleteOp}

\* C34: with two calls in flight, the underlying request stream of a call
\* receives only what the caller did on that call's proxy: no message or
\* complete signal more often than it was sent on that proxy, and once the
\* inner call exists exactly the messages sent on that proxy, in order.
C34_NoCrossing ==
  \A c \in Calls :
    /\ \A o \in RequestOps : Count(requests[c], o) <= Count(proxyOps[c], o)
    /\ pc[c] = "delegated" => Sent(requests[c]) = Sent(proxyOps[c])

\* Both inner calls exist, the second provider resolved first, and each
\* request stream has received what was sent on its own proxy.
C34_Witness ==
  /\ pc[1] = "delegated" /\ pc[2] = "delegated"
  /\ resolvedAt[2] = 0 /\ resolvedAt[1] = 1
  /\ requests[1] = <<SendOp("m1")>>
  /\ requests[2] = <<SendOp("m2"), CompleteOp>>

\* ------------------------------------------------ the router's metadata
\* A logical RpcMetadata value is a string or a list of strings:
\* [list |-> FALSE, values |-> <<s>>] stands for the string s,
\* [list |-> TRUE, values |-> l] for the list l.  A grpc.Metadata maps a key
\* to the list of its values.
MetaString(s) == [list |-> FALSE, values |-> <<s>>]
MetaList(l) == [list |-> TRUE, values |-> l]

\* grpc.Metadata.set(key, value): the key has this one value.
MetadataSet(metadata, key, value) == [k \in DOMAIN metadata \cup {key} |-> IF k = key THEN <<value>> ELSE metadata[k]]

\* grpc.Metadata.append(key, value): the value is added to those of the key.
MetadataAppend(metadata, key, value) == [k \in DOMAIN metadata \cup {key} |-> IF k # key THEN metadata[k] ELSE IF k \in DOMAIN metadata THEN Append(metadata[k], value) ELSE <<value>>]

\* A translation that writes a list with set, value by value, so that the
\* last one stays.
RECURSIVE SetEach(_, _, _)
SetEach(metadata, key, list) == IF list = <<>> THEN metadata ELSE SetEach(MetadataSet(metadata, key, Head(list)), key, Tail(list))

\* for (const v of value) metadata.append(key, v)
RECURSIVE AppendEach(_, _, _)
AppendEach(metadata, key, list) == IF list = <<>> THEN metadata ELSE AppendEach(MetadataAppend(metadata, key, Head(list)), key, Tail(list))

\* The body of the loop over Object.entries(meta).
ToGrpcEntry(metadata, key, value) == IF value.list THEN AppendEach(metadata, key, value.values) ELSE MetadataSet(metadata, key, value.values[1])

RECURSIVE ToGrpcEntries(_, _, _)
ToGrpcEntries(metadata, meta, keys) ==
  IF keys = {} THEN metadata
  ELSE LET key == CHOOSE k \in keys : TRUE
       IN ToGrpcEntries(ToGrpcEntry(metadata, key, meta[key]), meta, keys \ {key})

\* toGrpcMetadata(meta?): meta is optional, [given |-> FALSE] stands for
\* undefined.
toGrpcMetadata(meta) == IF meta.given THEN ToGrpcEntries([k \in {} |-> <<>>], meta.map, DOMAIN meta.map) ELSE [k \in {} |-> <<>>]

\* The values a key can have, and the mappings over Keys.
MetaValues == {MetaString(x) : x \in Str} \cup {MetaList(l) : l \in Lists({"a", "b"})}
LogicalMetadata == {[given |-> FALSE, map |-> [k \in {} |-> MetaString("")]]} \cup {[given |-> TRUE, map |-> m] : m \in UNION {[D -> MetaValues] : D \in SUBSET Keys}}

ToGrpcMetadata == Apply("meta", 1, toGrpcMetadata(codecVals[1]))
FromGrpcMetadata == Apply("meta", 2, fromGrpcMetadata(codecVals[2]))

InitTranslate == MetadataIdle /\ ErrorIdle /\ RouterIdle /\ codecOp = "meta" /\ \E m \in LogicalMetadata : codecVals = <<m>>

NextTranslate == ToGrpcMetadata \/ FromGrpcMetadata

SpecTranslate == InitTranslate /\ [][NextTranslate]_vars

\* C35: translating a logical Metadata mapping to the connection's
\* representation and back keeps every key whose value is a string or a list
\* of two or more strings, with the value and the order of the list; the
\* value of a key with a one-element list comes back as that string; a key
\* with an empty list does not come back; no other key comes back.
C35_MetadataRoundTrip ==
  (Done("meta", 2) /\ Given.given) =>
    /\ DOMAIN codecVals[3] = {k \in DOMAIN Given.map : Given.map[k].values # <<>>}
    /\ \A k \in DOMAIN codecVals[3] :
         IF Given.map[k].list /\ Len(Given.map[k].values) = 1
         THEN codecVals[3][k] = MetaString(Given.map[k].values[1])
         ELSE codecVals[3][k] = Given.map[k]

\* A mapping with a list of two and an empty list, translated there and
\* back: the list of two came back in its order, the empty one did not.
C35_Witness ==
  /\ Done("meta", 2)
  /\ Given.given
  /\ DOMAIN Given.map = Keys
  /\ Given.map["k1"] = MetaList(<<"b", "a">>)
  /\ Given.map["k2"] = MetaList(<<>>)
  /\ codecVals[3] = [k \in {"k1"} |-> MetaList(<<"b", "a">>)]

\* ------------------------------------------------ claims, part 2, continued
\* C36: the four promises of the call the unary hook returns are, in every
\* state, all pending, or all fulfilled with the inner call's headers,
\* response, status and trailers while onError has not been invoked, or all
\* rejected with one and the same error object; never some fulfilled and
\* others rejected.
C36_AllOrNothing ==
  etype = "unary" =>
    \/ \A ch \in Channels : eouter[ch].state = "pending"
    \/ /\ \A ch \in Channels : eouter[ch].state = "fulfilled" /\ einner[ch].state = "fulfilled" /\ eouter[ch].value = einner[ch].value
       /\ onErrorLog = <<>>
    \/ /\ \A ch \in Channels : eouter[ch].state = "rejected"
       /\ \A ch \in Channels : eouter[ch].value = eouter["headers"].value

\* The inner call fulfilled two of its promises and failed on a third with
\* a wire error: all four promises of the returned call are rejected with
\* the one mapped error, which onError has seen.
C36_Witness ==
  /\ etype = "unary" /\ epc = "done"
  /\ Cardinality({ch \in Channels : einner[ch].state = "fulfilled"}) = 2
  /\ \A ch \in Channels : eouter[ch].state = "rejected"
  /\ eouter["response"].value.class = "NotFoundError"
  /\ eouter["response"].value.ref = MappedRef(1)
  /\ onErrorLog = <<eouter["headers"].value>>

\* ------------------------------------------------ the options passed to next
\* Calls of every shape through the metadata interceptor, with every
\* configuration and every options object, and calls of every shape through
\* the error interceptor.
InitOptions == MetadataInit(Configs) /\ ErrorInit({"atob"}, {FALSE}, {{}}) /\ RouterIdle /\ CodecIdle

NextOptionsFrame ==
  \/ NextArgs
  \/ \E type \in CallType : ErrorHookWith(type, OptionRests)

SpecOptions == InitOptions /\ [][NextOptionsFrame]_vars

\* C37: after every step, the options the metadata interceptor has passed to
\* next hold, apart from meta, what the caller's options hold; a step changes
\* neither the options nor the meta a caller has passed; and the options the
\* error interceptor has passed to next are the options it was given.
C37_OptionsFrame ==
  [][
      /\ \A c \in Calls : \A i \in DOMAIN nextLog'[c] :
           /\ nextLog'[c][i].options.rest = args'[c].options.rest
           /\ DOMAIN nextLog'[c][i].options = DOMAIN args'[c].options
      /\ \A c \in Calls : pc[c] # "idle" => args'[c].options = args[c].options
      /\ \A i \in DOMAIN enextLog' : enextLog'[i].options = enextLog'[i].given
    ]_vars

\* The metadata interceptor has delegated with a meta that differs from the
\* caller's, and the error interceptor has passed on options with a signal.
C37_Witness ==
  /\ pc[1] = "delegated"
  /\ nextLog[1][1].options.meta # args[1].options.meta
  /\ nextLog[1][1].options.rest = "opts2"
  /\ Len(enextLog) = 1
  /\ enextLog[1].options = CallerOptions([given |-> TRUE, aborted |-> FALSE, late |-> FALSE], "opts2")

\* ------------------------------------------------ claims, part 4, continued
\* The names grpc.Code gives the numeric codes, in place of the names of
\* GrpcStatusCode.
PascalCodeOf(code) == toRpcStatusCode(code)

\* GrpcStatusCode: the status codes as strings, "how they appear in
\* RpcError.code", in the order of their numbers 0 .. 16.
RpcCodeOf(code) ==
  <<"OK", "CANCELLED", "UNKNOWN", "INVALID_ARGUMENT", "DEADLINE_EXCEEDED", "NOT_FOUND", "ALREADY_EXISTS",
    "PERMISSION_DENIED", "RESOURCE_EXHAUSTED", "FAILED_PRECONDITION", "ABORTED", "OUT_OF_RANGE", "UNIMPLEMENTED",
    "INTERNAL", "UNAVAILABLE", "DATA_LOSS", "UNAUTHENTICATED">>[code + 1]

\* The code encodeGrpcStatus wrote, and the class mapRpcError constructs for
\* an RpcError with that code, without rich details and without abort signal.
WrittenCode == Matching(codecVals[3], 1, "Varint")[1].val
MappedBack == mapRpcError(RpcErrorOf(RpcCodeOf(WrittenCode), NoHeader), FALSE, MappedRef(1)).error.class

\* C38: for an error of every kind other than raceUpdate, the code that
\* encodeGrpcStatus writes is mapped by the interceptor, with no abort
\* signal set, to an error of the same kind; the code written for raceUpdate
\* is mapped to aborted.
C38_KindCodeRoundTrip ==
  Done("error", 2) /\ codecVals[2].name \in Subclasses =>
    MappedBack = IF codecVals[2].name = "RaceUpdateError" THEN "AbortedError" ELSE codecVals[2].name

\* A validation error, written with code 3, which maps back to validation.
C38_Witness ==
  /\ Done("error", 2)
  /\ codecVals[2].name = "ValidationError"
  /\ WrittenCode = 3
  /\ MappedBack = "ValidationError"

\* C39: a retryInfo detail with a delay greater than 0 is encoded with its
\* Duration and decodes to the same number of seconds; one with a delay of 0
\* or less is encoded without any field and decodes to a delay of 0.
C39_RetryDelay ==
  (codecOp = "detail" /\ Given.type = "retryInfo") =>
    /\ Len(codecVals) > 1 =>
         /\ codecVals[2].typeUrl = TYPE_URLS.retryInfo
         /\ (codecVals[2].value = <<>>) <=> (Given.retryDelaySeconds <= 0)
    /\ Len(codecVals) > 2 =>
         codecVals[3] = [type |-> "retryInfo", retryDelaySeconds |-> IF Given.retryDelaySeconds > 0 THEN Given.retryDelaySeconds ELSE 0]

\* A delay of 30 seconds came back as 30.
C39_Witness ==
  /\ Done("detail", 2)
  /\ Given = [type |-> "retryInfo", retryDelaySeconds |-> 30]
  /\ codecVals[2].value # <<>>
  /\ codecVals[3].retryDelaySeconds = 30
====
